---- MODULE Spec2Model ----
(***************************************************************************)
(* Model of MySSE: the HNSW index (lib/hnsw.ts) and the SemanticEngine     *)
(* with its Powers pipeline (lib/semantic-engine.ts).                      *)
(*                                                                         *)
(* Vectors are integer tuples of squared norm Norm2, so that the cosine    *)
(* distance 1 - dot(a,b) of the source is represented, scaled by Norm2, as *)
(* Norm2 - Dot(a,b): every comparison and every sort of the source gives   *)
(* the same outcome on the scaled values.                                  *)
(*                                                                         *)
(* The model runs the program at a reduced scale: vectors have             *)
(* EMBEDDING_DIM = 2 components (384 in the source), an index built with   *)
(* the default M links DEFAULT_M = 2 neighbours per layer (16), and the    *)
(* default ANN threshold is ANN_THRESHOLD_DEFAULT = 1 document (2000), so  *)
(* that pruning and the switch of routes happen with a handful of nodes.   *)
(* EF_CONSTRUCTION and the default efSearch keep the source's values.      *)
(*                                                                         *)
(* JavaScript Map and Set iterate in insertion order. Maps are modelled as *)
(* a key sequence (order) with functions over the keys, Sets as sequences  *)
(* without repetition.                                                     *)
(***************************************************************************)
EXTENDS Integers, Sequences, FiniteSets, TLC

VARIABLES
  index,    \* an HNSW instance used directly (new HNSW(dim, m))
  docs,     \* SemanticEngine.docs : Map<string, StoredDocument>
  hnsw,     \* SemanticEngine.hnsw : HNSW | null
  powers,   \* SemanticEngine._powers : Power[]
  cfg,      \* SemanticEngine construction options (readonly fields)
  ret,      \* the last call made and what it returned or threw
  removed,  \* ids whose delete returned true and that were not added since
  budget,   \* number of calls the behaviour may still make
  inflight  \* engine calls that overlap: those suspended at an await, and
            \* those that have returned, with what they returned

vars == <<index, docs, hnsw, powers, cfg, ret, removed, budget, inflight>>

\* no call is suspended, none has been recorded
NoCalls == [pending |-> <<>>, done |-> <<>>]

\* null for an id (enterPoint); ids are 1..NumIds
NoId == 0

\* T | null is a sequence of length at most one
None == <<>>
Some(x) == <<x>>

(***************************************************************************)
(* Bounds of the model.                                                    *)
(***************************************************************************)
NumIds == 6
MaxLevel == 2
MaxK == 2
MaxCalls == 7

Ids == 1..NumIds
Levels == 0..MaxLevel

(***************************************************************************)
(* Vector math.                                                            *)
(***************************************************************************)
UnitVecs == << <<5, 0>>, <<4, 3>>, <<3, 4>>, <<0, 5>> >>
Vectors == {UnitVecs[i] : i \in 1..Len(UnitVecs)}
Norm2 == 25
EMBEDDING_DIM == 2
ShortVec == <<5>>

\* the vector the caller of HNSW.add passes for id
VecOf(id) == UnitVecs[((id - 1) % Len(UnitVecs)) + 1]

RECURSIVE DotFrom(_, _, _)
DotFrom(a, b, i) ==
  IF i > Len(a) THEN 0 ELSE a[i] * b[i] + DotFrom(a, b, i + 1)

Dot(a, b) == DotFrom(a, b, 1)

cosineDistance(a, b) == Norm2 - Dot(a, b)

(***************************************************************************)
(* Map and Set helpers.                                                    *)
(***************************************************************************)
Elems(s) == {s[i] : i \in 1..Len(s)}

SetAdd(s, x) == IF x \in Elems(s) THEN s ELSE Append(s, x)

SetDelete(s, x) == SelectSeq(s, LAMBDA y : y # x)

MapPut(f, k, v) == [x \in (DOMAIN f) \cup {k} |-> IF x = k THEN v ELSE f[x]]

MapDel(f, k) == [x \in (DOMAIN f) \ {k} |-> f[x]]

EmptyMap == [x \in {} |-> 0]

Take(s, n) == SubSeq(s, 1, IF n < Len(s) THEN n ELSE Len(s))

Max2(a, b) == IF a > b THEN a ELSE b

Min2(a, b) == IF a < b THEN a ELSE b

(***************************************************************************)
(* Array.prototype.sort((a, b) => a.dist - b.dist) is stable.              *)
(***************************************************************************)
InsertSorted(s, n) ==
  LET k == Cardinality({i \in 1..Len(s) : s[i].dist <= n.dist})
  IN SubSeq(s, 1, k) \o <<n>> \o SubSeq(s, k + 1, Len(s))

RECURSIVE SortByDistFrom(_, _)
SortByDistFrom(s, acc) ==
  IF s = <<>> THEN acc ELSE SortByDistFrom(Tail(s), InsertSorted(acc, Head(s)))

SortByDist(s) == SortByDistFrom(s, <<>>)

(***************************************************************************)
(* HNSW (lib/hnsw.ts).                                                     *)
(***************************************************************************)
DEFAULT_M == 2
EF_CONSTRUCTION == 40

NewHNSW(dim, m) ==
  [dim |-> dim, m |-> m, order |-> <<>>, vectors |-> EmptyMap,
   nodeLevel |-> EmptyMap, layers |-> EmptyMap,
   enterPoint |-> NoId, maxLayer |-> 0]

mMax(h) == h.m

mMax0(h) == 2 * h.m

MaxConn(h, layer) == IF layer = 0 THEN mMax0(h) ELSE mMax(h)

HSize(h) == Cardinality(DOMAIN h.vectors)

\* this.layers.get(id)?.[layer] is defined
HasLayer(h, id, layer) ==
  id \in DOMAIN h.layers /\ layer + 1 <= Len(h.layers[id])

\* this.layers.get(id)?.[layer] : the neighbour set (<<>> stands in for
\* undefined, which every caller tests with HasLayer first)
LayerOf(h, id, layer) ==
  IF HasLayer(h, id, layer) THEN h.layers[id][layer + 1] ELSE <<>>

selectNeighborsSimple(candidates, k) ==
  LET sorted == Take(SortByDist(candidates), k)
  IN [i \in 1..Len(sorted) |-> sorted[i].id]

\* The for loop over one candidate's neighbour set in searchLayer.  st.ok
\* turns FALSE when cosineDistance dereferences the vector of an id that is
\* not in this.vectors (a TypeError in the source).
RECURSIVE ExpandNeighbors(_, _, _, _, _)
ExpandNeighbors(h, q, ef, nbrs, st) ==
  IF nbrs = <<>> \/ ~st.ok THEN st
  ELSE
    LET nid == Head(nbrs) IN
    IF nid \in st.visited THEN ExpandNeighbors(h, q, ef, Tail(nbrs), st)
    ELSE IF nid \notin DOMAIN h.vectors THEN [st EXCEPT !.ok = FALSE]
    ELSE
      LET dist == cosineDistance(q, h.vectors[nid])
          farthest == st.found[Len(st.found)]
          n == [id |-> nid, dist |-> dist]
          vis == st.visited \cup {nid}
      IN IF dist < farthest.dist \/ Len(st.found) < ef
           THEN LET f2 == InsertSorted(st.found, n)
                    c2 == InsertSorted(st.candidates, n)
                    f3 == IF Len(f2) > ef THEN SubSeq(f2, 1, Len(f2) - 1) ELSE f2
                IN ExpandNeighbors(h, q, ef, Tail(nbrs),
                     [st EXCEPT !.found = f3, !.candidates = c2, !.visited = vis])
           ELSE ExpandNeighbors(h, q, ef, Tail(nbrs), [st EXCEPT !.visited = vis])

\* The while loop of searchLayer.
RECURSIVE SearchLoop(_, _, _, _, _)
SearchLoop(h, q, ef, layer, st) ==
  IF st.candidates = <<>> \/ ~st.ok THEN st
  ELSE
    LET closest == Head(st.candidates)
        st1 == [st EXCEPT !.candidates = Tail(st.candidates)]
        farthestFound == st.found[Len(st.found)]
    IN IF closest.dist > farthestFound.dist THEN st1
       ELSE LET neighbors == LayerOf(h, closest.id, layer)
            IN IF ~HasLayer(h, closest.id, layer) THEN SearchLoop(h, q, ef, layer, st1)
               ELSE SearchLoop(h, q, ef, layer,
                      ExpandNeighbors(h, q, ef, neighbors, st1))

\* Algorithm 2.  Result: [ok, found]; ok = FALSE stands for the TypeError.
searchLayer(h, q, ep, ef, layer) ==
  IF \E i \in 1..Len(ep) : ep[i] \notin DOMAIN h.vectors
    THEN [ok |-> FALSE, found |-> <<>>]
    ELSE
      LET found0 == SortByDist([i \in 1..Len(ep) |->
                       [id |-> ep[i], dist |-> cosineDistance(q, h.vectors[ep[i]])]])
          st == SearchLoop(h, q, ef, layer,
                  [found |-> found0, candidates |-> found0,
                   visited |-> Elems(ep), ok |-> TRUE])
      IN [ok |-> st.ok, found |-> st.found]

\* shrinkNeighbors that keeps one neighbour too many (slice(0, maxConn + 1))
shrinkNeighborsKeepsOneMore(h, nodeId, layer) ==
  LET maxConn == MaxConn(h, layer)
      neighbors == LayerOf(h, nodeId, layer)
  IN IF ~HasLayer(h, nodeId, layer) \/ Len(neighbors) <= maxConn THEN [ok |-> TRUE, h |-> h]
     ELSE IF \E i \in 1..Len(neighbors) : neighbors[i] \notin DOMAIN h.vectors
       THEN [ok |-> FALSE, h |-> h]
     ELSE
       LET nodeVec == h.vectors[nodeId]
           scored == [i \in 1..Len(neighbors) |->
                        [id |-> neighbors[i],
                         dist |-> cosineDistance(nodeVec, h.vectors[neighbors[i]])]]
           kept == selectNeighborsSimple(scored, maxConn + 1)
       IN [ok |-> TRUE,
           h |-> [h EXCEPT !.layers[nodeId][layer + 1] = kept]]

\* Shrink a node's neighbour list if it exceeds its cap.
\* Result: [ok, h]; ok = FALSE stands for the TypeError of cosineDistance on
\* the missing vector of a neighbour id.
shrinkNeighbors(h, nodeId, layer) ==
  LET maxConn == MaxConn(h, layer)
      neighbors == LayerOf(h, nodeId, layer)
  IN IF ~HasLayer(h, nodeId, layer) \/ Len(neighbors) <= maxConn THEN [ok |-> TRUE, h |-> h]
     ELSE IF \E i \in 1..Len(neighbors) : neighbors[i] \notin DOMAIN h.vectors
       THEN [ok |-> FALSE, h |-> h]
     ELSE
       LET nodeVec == h.vectors[nodeId]
           scored == [i \in 1..Len(neighbors) |->
                        [id |-> neighbors[i],
                         dist |-> cosineDistance(nodeVec, h.vectors[neighbors[i]])]]
           kept == selectNeighborsSimple(scored, maxConn)
       IN [ok |-> TRUE,
           h |-> [h EXCEPT !.layers[nodeId][layer + 1] = kept]]

\* "Connect bidirectionally": the for loop over selected in HNSW.add.
RECURSIVE Connect(_, _, _, _)
Connect(r, id, l, selected) ==
  IF selected = <<>> \/ ~r.ok THEN r
  ELSE
    LET nid == Head(selected)
        h1 == [r.h EXCEPT !.layers[id][l + 1] = SetAdd(@, nid)]
    IN IF ~HasLayer(h1, nid, l)
         THEN Connect([ok |-> TRUE, h |-> h1], id, l, Tail(selected))
         ELSE LET h2 == [h1 EXCEPT !.layers[nid][l + 1] = SetAdd(@, id)]
              IN Connect(shrinkNeighbors(h2, nid, l), id, l, Tail(selected))

\* Phase 1 of HNSW.add and the upper layers of HNSW.search: greedy walk with
\* ef = 1 from layer l down to layer stop + 1.  Result: [ok, ep].
RECURSIVE GreedyDescent(_, _, _, _, _)
GreedyDescent(h, q, ep, l, stop) ==
  IF l <= stop THEN [ok |-> TRUE, ep |-> ep]
  ELSE LET nearest == searchLayer(h, q, ep, 1, l)
       IN IF ~nearest.ok THEN [ok |-> FALSE, ep |-> ep]
          ELSE GreedyDescent(h, q, <<nearest.found[1].id>>, l - 1, stop)

\* Phase 2 of HNSW.add: search and connect at layers l down to 0.
RECURSIVE ConnectLayers(_, _, _, _, _)
ConnectLayers(h, id, vector, ep, l) ==
  IF l < 0 THEN [ok |-> TRUE, h |-> h]
  ELSE LET nearest == searchLayer(h, vector, ep, EF_CONSTRUCTION, l)
       IN IF ~nearest.ok THEN [ok |-> FALSE, h |-> h]
          ELSE LET selected == selectNeighborsSimple(nearest.found, MaxConn(h, l))
                   r == Connect([ok |-> TRUE, h |-> h], id, l, selected)
               IN IF ~r.ok THEN r
                  ELSE ConnectLayers(r.h, id, vector, selected, l - 1)

\* Algorithm 1: INSERT, with level the value randomLevel() returned.
\* Result: [h, err]; h is the index as the call left it, err the error thrown
\* ("none" when add returned).
HnswAdd(h, id, vector, level) ==
  IF Len(vector) # h.dim THEN [h |-> h, err |-> "Dimension mismatch"]
  ELSE IF id \in DOMAIN h.vectors THEN [h |-> h, err |-> "ID already exists"]
  ELSE
    LET h1 == [h EXCEPT !.order = Append(@, id),
                        !.vectors = MapPut(@, id, vector),
                        !.nodeLevel = MapPut(@, id, level),
                        !.layers = MapPut(@, id, [i \in 1..(level + 1) |-> <<>>])]
        L == h.maxLayer
    IN IF h.enterPoint = NoId
         THEN [h |-> [h1 EXCEPT !.enterPoint = id, !.maxLayer = level],
               err |-> "none"]
         ELSE
           LET p1 == GreedyDescent(h1, vector, <<h.enterPoint>>, L, level)
           IN IF ~p1.ok THEN [h |-> h1, err |-> "TypeError"]
              ELSE
                LET p2 == ConnectLayers(h1, id, vector, p1.ep, Min2(level, L))
                IN IF ~p2.ok THEN [h |-> p2.h, err |-> "TypeError"]
                   ELSE IF level > L
                     THEN [h |-> [p2.h EXCEPT !.enterPoint = id, !.maxLayer = level],
                           err |-> "none"]
                     ELSE [h |-> p2.h, err |-> "none"]

\* Algorithm 5: K-NN-SEARCH.  Result: [err, results]; a result's score is
\* 1 - dist, scaled by Norm2.
HnswSearch(h, query, k, efSearch) ==
  IF h.enterPoint = NoId THEN [err |-> "none", results |-> <<>>]
  ELSE
    LET up == GreedyDescent(h, query, <<h.enterPoint>>, h.maxLayer, 0)
    IN IF ~up.ok THEN [err |-> "TypeError", results |-> <<>>]
       ELSE
         LET ef0 == Max2(efSearch, k)
             results == searchLayer(h, query, up.ep, ef0, 0)
         IN IF ~results.ok THEN [err |-> "TypeError", results |-> <<>>]
            ELSE LET top == Take(results.found, k)
                 IN [err |-> "none",
                     results |-> [i \in 1..Len(top) |->
                                    [id |-> top[i].id, score |-> Norm2 - top[i].dist]]]

\* "Remove bidirectional connections": this.layers.get(nid)?.[l]?.delete(id)
\* for every nid in the deleted node's own neighbour sets.
RECURSIVE Unlink(_, _, _, _)
Unlink(layers, id, l, nbrs) ==
  IF nbrs = <<>> THEN layers
  ELSE LET nid == Head(nbrs)
       IN IF nid \in DOMAIN layers /\ l + 1 <= Len(layers[nid])
            THEN Unlink([layers EXCEPT ![nid][l + 1] = SetDelete(@, id)],
                        id, l, Tail(nbrs))
            ELSE Unlink(layers, id, l, Tail(nbrs))

RECURSIVE UnlinkLayers(_, _, _, _)
UnlinkLayers(layers, id, l, level) ==
  IF l > level THEN layers
  ELSE IF l + 1 > Len(layers[id]) THEN UnlinkLayers(layers, id, l + 1, level)
  ELSE UnlinkLayers(Unlink(layers, id, l, layers[id][l + 1]), id, l + 1, level)

\* The scan of nodeLevel for the new entry point: the first node, in Map
\* order, of strictly greatest level.
RECURSIVE BestNode(_, _, _, _)
BestNode(order, nodeLevel, bestId, bestLevel) ==
  IF order = <<>> THEN [id |-> bestId, level |-> bestLevel]
  ELSE IF nodeLevel[Head(order)] > bestLevel
    THEN BestNode(Tail(order), nodeLevel, Head(order), nodeLevel[Head(order)])
    ELSE BestNode(Tail(order), nodeLevel, bestId, bestLevel)

\* Result: [h, ret] with ret the boolean delete returns.
HnswDelete(h, id) ==
  IF id \notin DOMAIN h.vectors THEN [h |-> h, ret |-> FALSE]
  ELSE
    LET level == h.nodeLevel[id]
        unlinked == UnlinkLayers(h.layers, id, 0, level)
        h1 == [h EXCEPT !.order = SetDelete(@, id),
                        !.vectors = MapDel(@, id),
                        !.nodeLevel = MapDel(@, id),
                        !.layers = MapDel(unlinked, id)]
        best == BestNode(h1.order, h1.nodeLevel, NoId, -1)
    IN IF h.enterPoint # id THEN [h |-> h1, ret |-> TRUE]
       ELSE IF HSize(h1) = 0
         THEN [h |-> [h1 EXCEPT !.enterPoint = NoId, !.maxLayer = 0], ret |-> TRUE]
         ELSE [h |-> [h1 EXCEPT !.enterPoint = best.id, !.maxLayer = best.level],
               ret |-> TRUE]

HnswClear(h) ==
  [h EXCEPT !.order = <<>>, !.vectors = EmptyMap, !.nodeLevel = EmptyMap,
            !.layers = EmptyMap, !.enterPoint = NoId, !.maxLayer = 0]

(***************************************************************************)
(* The HNSW class used directly: one action per public method.             *)
(***************************************************************************)
NoCall == [op |-> "none"]

ANN_THRESHOLD_DEFAULT == 1
EF_SEARCH_DEFAULT == 64

\* the options a SemanticEngine is constructed with when none are given
DefaultOptions ==
  [useANN |-> TRUE, annThreshold |-> ANN_THRESHOLD_DEFAULT, m |-> DEFAULT_M,
   efConstruction |-> 40, efSearch |-> EF_SEARCH_DEFAULT]

EmptyDocs == [order |-> <<>>, entry |-> EmptyMap]

InitHNSW ==
  /\ index = NewHNSW(EMBEDDING_DIM, DEFAULT_M)
  /\ docs = EmptyDocs
  /\ hnsw = None
  /\ powers = <<>>
  /\ cfg = DefaultOptions
  /\ ret = NoCall
  /\ removed = {}
  /\ inflight = NoCalls
  /\ budget = [index |-> MaxCalls, search |-> 0, engine |-> 0, use |-> 0]

\* Ids are opaque to the index (it only tests them for equality), so the
\* k-th distinct id a caller brings into use is called k: a call names an
\* id already used or the least unused one.
KnownOrNext(id, used) == \A j \in Ids \ used : id <= j

IndexAdd ==
  \E id \in Ids : \E v \in {VecOf(id), ShortVec}, level \in Levels :
    LET r == HnswAdd(index, id, v, level)
    IN /\ budget.index > 0
       /\ KnownOrNext(id, (DOMAIN index.vectors) \cup removed)
       /\ budget' = [budget EXCEPT !.index = @ - 1]
       /\ index' = r.h
       /\ ret' = [op |-> "hnsw.add", id |-> id, vector |-> v, err |-> r.err]
       /\ removed' = IF r.err = "none" THEN removed \ {id} ELSE removed
       /\ UNCHANGED <<docs, hnsw, powers, cfg, inflight>>

IndexDelete ==
  \E id \in Ids :
    LET r == HnswDelete(index, id)
    IN /\ budget.index > 0
       /\ KnownOrNext(id, (DOMAIN index.vectors) \cup removed)
       /\ budget' = [budget EXCEPT !.index = @ - 1]
       /\ index' = r.h
       /\ ret' = [op |-> "hnsw.delete", result |-> r.ret]
       /\ removed' = IF r.ret THEN removed \cup {id} ELSE removed
       /\ UNCHANGED <<docs, hnsw, powers, cfg, inflight>>

IndexClear ==
  /\ budget.index > 0
  /\ budget' = [budget EXCEPT !.index = @ - 1]
  /\ index' = HnswClear(index)
  /\ ret' = [op |-> "hnsw.clear"]
  /\ UNCHANGED <<docs, hnsw, powers, cfg, inflight, removed>>

\* HNSW.search assigns no field of the index: what a behaviour reaches after a
\* search it reaches without it, so a behaviour ends with its search
IndexSearch ==
  /\ budget.search > 0
  /\ \E q \in Vectors, k \in 1..MaxK :
       \E r \in {HnswSearch(index, q, k, EF_SEARCH_DEFAULT)} :
         /\ budget' = [budget EXCEPT !.index = 0, !.search = 0]
         /\ ret' = [op |-> "hnsw.search", k |-> k, err |-> r.err, results |-> r.results]
         /\ UNCHANGED <<index, docs, hnsw, powers, cfg, inflight, removed>>

NextHNSW == IndexAdd \/ IndexDelete \/ IndexClear

SpecHNSW == InitHNSW /\ [][NextHNSW]_vars

(***************************************************************************)
(* The index with the level of an insertion computed by randomLevel from   *)
(* what Math.random() returned.  Math.random() is in [0, 1): the model's   *)
(* random source returns u / RandomDenominator for u in                    *)
(* 0..RandomDenominator - 1.                                               *)
(***************************************************************************)
RandomDenominator == 4
MaxDrawCalls == 5

\* the double Infinity
Infinity == 2000000000

\* Math.floor(-Math.log(u / RandomDenominator) * (1 / Math.log(m))):
\* -Math.log(0) is Infinity, 1 / Math.log(1) is Infinity, and otherwise the
\* value is the greatest k with u * m^k <= RandomDenominator
randomLevel(u, m) ==
  LET RECURSIVE FloorLog(_, _)
      FloorLog(x, k) == IF x * m > RandomDenominator THEN k ELSE FloorLog(x * m, k + 1)
  IN IF u = 0 \/ m = 1 THEN Infinity ELSE FloorLog(u, 0)

\* HNSW.add with the level randomLevel returns: the loop
\* "for (let i = 0; i <= level; i++) layerSets.push(new Set())" has no end
\* when level is Infinity, and add does not return
HnswAddDrawn(h, id, vector, u) ==
  LET level == randomLevel(u, h.m)
  IN IF Len(vector) # h.dim \/ id \in DOMAIN h.vectors \/ level # Infinity
       THEN HnswAdd(h, id, vector, level)
       ELSE [h |-> [h EXCEPT !.order = Append(@, id),
                             !.vectors = MapPut(@, id, vector),
                             !.nodeLevel = MapPut(@, id, level)],
             err |-> "NoReturn"]

InitDrawn ==
  /\ index = NewHNSW(EMBEDDING_DIM, DEFAULT_M)
  /\ docs = EmptyDocs
  /\ hnsw = None
  /\ powers = <<>>
  /\ cfg = DefaultOptions
  /\ ret = NoCall
  /\ removed = {}
  /\ inflight = NoCalls
  /\ budget = [index |-> MaxDrawCalls, search |-> 0, engine |-> 0, use |-> 0]

\* a call of add that does not return ends the behaviour
IndexAddDrawn ==
  /\ budget.index > 0
  /\ \E id \in Ids, u \in 0..(RandomDenominator - 1) :
       \E r \in {HnswAddDrawn(index, id, VecOf(id), u)} :
         /\ KnownOrNext(id, (DOMAIN index.vectors) \cup removed)
         /\ budget' = [budget EXCEPT !.index = IF r.err = "NoReturn" THEN 0 ELSE @ - 1]
         /\ index' = r.h
         /\ ret' = [op |-> "hnsw.add", id |-> id, vector |-> VecOf(id), u |-> u,
                    level |-> randomLevel(u, index.m), err |-> r.err]
         /\ removed' = IF r.err = "none" THEN removed \ {id} ELSE removed
  /\ UNCHANGED <<docs, hnsw, powers, cfg, inflight>>

NextDrawn == IndexAddDrawn \/ IndexDelete \/ IndexClear

SpecDrawn == InitDrawn /\ [][NextDrawn]_vars

\* The same index, searched as well.
InitSearch ==
  /\ index = NewHNSW(EMBEDDING_DIM, DEFAULT_M)
  /\ docs = EmptyDocs
  /\ hnsw = None
  /\ powers = <<>>
  /\ cfg = DefaultOptions
  /\ ret = NoCall
  /\ removed = {}
  /\ inflight = NoCalls
  /\ budget = [index |-> MaxCalls, search |-> 1, engine |-> 0, use |-> 0]

NextSearch == IndexAdd \/ IndexDelete \/ IndexClear \/ IndexSearch

SpecSearch == InitSearch /\ [][NextSearch]_vars

(***************************************************************************)
(* SemanticEngine (lib/semantic-engine.ts).                                *)
(*                                                                         *)
(* A document's content is a number in Contents; the built-in embedder and *)
(* the embed hooks of the Powers map contents to vectors.                  *)
(***************************************************************************)
NumDocIds == 2
NumContents == 2
MaxBatch == 2
MaxEngineLevel == 1
MaxEngineCalls == 4

DocIds == 1..NumDocIds
Contents == 1..NumContents
EngineLevels == 0..MaxEngineLevel

\* the metadata a caller attaches to the document of this id
MetaOf(id) == IF id % 2 = 1 THEN "pub" ELSE "draft"

Documents == {[id |-> id, content |-> c, metadata |-> MetaOf(id)] : id \in DocIds, c \in Contents}

\* the batches a caller passes to add: up to MaxBatch documents, listed in
\* increasing (id, content) order; two documents of a batch may share an id
DocBefore(a, b) == a.id < b.id \/ (a.id = b.id /\ a.content < b.content)

Batches ==
  {b \in UNION {[1..n -> Documents] : n \in 0..MaxBatch} :
     \A i \in 1..(Len(b) - 1) : DocBefore(b[i], b[i + 1])}

\* SimpleEmbeddingModel.embed for one text: deterministic in the text
createEmbedding(text) == UnitVecs[((text - 1) % Len(UnitVecs)) + 1]

\* the score of a stored embedding with more components than the query:
\* embedding[i] * undefined is NaN, and so is every sum with it
NaN == -2000000000

\* the dot loop of searchBruteForce, which runs over the stored embedding
BruteForceDot(embedding, queryVec) ==
  IF Len(embedding) > Len(queryVec) THEN NaN ELSE DotFrom(embedding, queryVec, 1)

\* the comparator (a, b) => b.score - a.score is negative, which puts a
\* before b; a NaN difference counts as 0
ScoreBefore(a, b) == a.score # NaN /\ b.score # NaN /\ b.score - a.score < 0

\* results.sort(comparator): a stable insertion sort
InsertByScore(s, r) ==
  LET after == {i \in 1..Len(s) : ~ScoreBefore(r, s[i])}
      k == IF after = {} THEN 0 ELSE CHOOSE i \in after : \A j \in after : j <= i
  IN SubSeq(s, 1, k) \o <<r>> \o SubSeq(s, k + 1, Len(s))

RECURSIVE SortByScoreFrom(_, _)
SortByScoreFrom(s, acc) ==
  IF s = <<>> THEN acc ELSE SortByScoreFrom(Tail(s), InsertByScore(acc, Head(s)))

SortByScoreDesc(results) == SortByScoreFrom(results, <<>>)

(***************************************************************************)
(* The Powers a caller registers.  A Power is a record of optional hooks:  *)
(* hooks is the set of hooks it defines, kind selects what they do.        *)
(***************************************************************************)
AllHooks ==
  {"beforeAdd", "afterAdd", "beforeSearch", "afterSearch", "onDelete",
   "onClear", "embed"}

Rot(c) == (c % NumContents) + 1

\* what a short-circuiting beforeSearch hook hands back
CannedResults == <<[id |-> 1, content |-> 1, metadata |-> "pub", score |-> 0]>>

PowerPool ==
  { [name |-> "A", kind |-> "rewrite", hooks |-> AllHooks],
    [name |-> "B", kind |-> "trim", hooks |-> AllHooks],
    [name |-> "C", kind |-> "cache", hooks |-> {"beforeSearch", "afterSearch"}],
    [name |-> "A", kind |-> "plain", hooks |-> {"afterAdd", "onDelete"}] }

PowerNames == {p.name : p \in PowerPool}

Reverse(s) == [i \in 1..Len(s) |-> s[Len(s) + 1 - i]]

(***************************************************************************)
(* The Powers of lib/powers.  Each is a record that also holds the state   *)
(* its closure keeps; a hook that changes this state is a step of          *)
(* PowerAfter.                                                             *)
(***************************************************************************)
\* tokenize of hybrid-search.ts: the tokens of more than one character, in
\* text order; text 1 reads "alpha beta", text 2 "beta beta", any other text
\* has no such token
tokenize(text) ==
  CASE text = 1 -> <<1, 2>>
    [] text = 2 -> <<2, 2>>
    [] OTHER -> <<>>

RRF_K == 60
MIN_CANDIDATE_K == 10
CANDIDATE_MULTIPLIER == 3

\* fused scores are counted in units of 1 / (alpha's denominator * RRFScale),
\* RRFScale the least common multiple of RRF_K + 1 .. RRF_K + 5
RRFScale == 495593280

\* HybridSearch(opts) with alpha = alpha[1] / alpha[2] and the default k1, b.
\* termIndex maps a term to its postings Map, [order, tf]
HybridSearch(alpha) ==
  [name |-> "HybridSearch", kind |-> "HybridSearch",
   hooks |-> {"afterAdd", "afterSearch", "onDelete", "onClear"},
   alpha |-> alpha, termIndex |-> EmptyMap, docTerms |-> EmptyMap,
   docLengths |-> EmptyMap, docFreq |-> EmptyMap, totalDocLength |-> 0,
   storedDocs |-> EmptyMap]

RECURSIVE indexDocuments(_, _)
indexDocuments(p, ds) ==
  IF ds = <<>> THEN p
  ELSE
    LET doc == Head(ds)
        tokens == tokenize(doc.content)
        terms == Elems(tokens)
        termFreq(t) == Cardinality({i \in 1..Len(tokens) : tokens[i] = t})
        Postings(t) ==
          IF t \in DOMAIN p.termIndex THEN p.termIndex[t]
          ELSE [order |-> <<>>, tf |-> EmptyMap]
    IN indexDocuments(
         [p EXCEPT
            !.storedDocs = MapPut(@, doc.id, [content |-> doc.content,
                                              metadata |-> doc.metadata]),
            !.docTerms = MapPut(@, doc.id, terms),
            !.docLengths = MapPut(@, doc.id, Len(tokens)),
            !.totalDocLength = @ + Len(tokens),
            !.termIndex =
               [t \in (DOMAIN p.termIndex) \cup terms |->
                  IF t \in terms
                    THEN [order |-> SetAdd(Postings(t).order, doc.id),
                          tf |-> MapPut(Postings(t).tf, doc.id, termFreq(t))]
                    ELSE p.termIndex[t]],
            !.docFreq =
               [t \in (DOMAIN p.docFreq) \cup terms |->
                  IF t \notin terms THEN p.docFreq[t]
                  ELSE IF t \in DOMAIN p.docFreq THEN p.docFreq[t] + 1
                  ELSE 1]],
         Tail(ds))

removeDocument(p, id) ==
  IF id \notin DOMAIN p.docTerms THEN [p EXCEPT !.storedDocs = MapDel(@, id)]
  ELSE
    LET terms == p.docTerms[id]
        Left(t) == SetDelete(p.termIndex[t].order, id)
        df(t) == p.docFreq[t] - 1
    IN [p EXCEPT
          !.storedDocs = MapDel(@, id),
          !.totalDocLength =
             @ - (IF id \in DOMAIN p.docLengths THEN p.docLengths[id] ELSE 0),
          !.docLengths = MapDel(@, id),
          !.docTerms = MapDel(@, id),
          !.termIndex =
             [t \in {u \in DOMAIN p.termIndex : u \notin terms \/ Left(u) # <<>>} |->
                IF t \in terms
                  THEN [order |-> Left(t), tf |-> MapDel(p.termIndex[t].tf, id)]
                  ELSE p.termIndex[t]],
          !.docFreq =
             [t \in {u \in DOMAIN p.docFreq : u \notin terms \/ df(u) > 0} |->
                IF t \in terms THEN df(t) ELSE p.docFreq[t]]]

\* Math.log((N - df + 0.5) / (df + 0.5) + 1) in units of 1/10000, rounded:
\* IdfTable[N + 1][df]
IdfTable ==
  << <<-4055, -9163, -12528, -15041, -17047, -18718, -20149, -21401,
       -22513, -23514, -24423, -25257, -26027, -26741, -27408, -28034>>,
     <<2877, -2231, -5596, -8109, -10116, -11787, -13218, -14469,
       -15581, -16582, -17492, -18326, -19095, -19810, -20477, -21102>>,
     <<6931, 1823, -1542, -4055, -6061, -7732, -9163, -10415,
       -11527, -12528, -13437, -14271, -15041, -15755, -16422, -17047>>,
     <<9808, 4700, 1335, -1178, -3185, -4855, -6286, -7538,
       -8650, -9651, -10561, -11394, -12164, -12879, -13545, -14171>>,
     <<12040, 6931, 3567, 1054, -953, -2624, -4055, -5306,
       -6419, -7419, -8329, -9163, -9933, -10647, -11314, -11939>> >>

\* Result: [err, results]; a score is counted in units of 1/10000.  With
\* avgDl = avg[1] / avg[2], k1 = 3/2 and b = 3/4 the norm
\* tf (k1 + 1) / (tf + k1 (1 - b + b dl / avgDl)) is
\* 20 tf avg[1] / (8 tf avg[1] + 3 avg[1] + 9 dl avg[2]).
bm25Search(p, query, topK) ==
  LET queryTerms == tokenize(query)
      N == Cardinality(DOMAIN p.docLengths)
      avg == IF N > 0 /\ p.totalDocLength >= N THEN <<p.totalDocLength, N>>
             ELSE <<1, 1>>
      \* the terms the loop does not skip
      scored == SelectSeq(queryTerms, LAMBDA t : t \in DOMAIN p.docFreq)
      dl(id) == IF id \in DOMAIN p.docLengths THEN p.docLengths[id] ELSE 0
      Part(t, id) ==
        IF id \notin DOMAIN p.termIndex[t].tf THEN 0
        ELSE LET tf == p.termIndex[t].tf[id]
             IN (IdfTable[N + 1][p.docFreq[t]] * 20 * tf * avg[1])
                  \div (8 * tf * avg[1] + 3 * avg[1] + 9 * dl(id) * avg[2])
      RECURSIVE Score(_, _)
      Score(id, i) ==
        IF i > Len(scored) THEN 0 ELSE Part(scored[i], id) + Score(id, i + 1)
      \* the keys of scores, in the order the loop set them first
      RECURSIVE Keys(_, _)
      Keys(i, acc) ==
        IF i > Len(scored) THEN acc
        ELSE Keys(i + 1, acc \o SelectSeq(p.termIndex[scored[i]].order,
                                          LAMBDA id : id \notin Elems(acc)))
      Ranked(keys) ==
        Take(SortByScoreDesc([i \in 1..Len(keys) |->
                                [id |-> keys[i], score |-> Score(keys[i], 1)]]), topK)
  IN IF queryTerms = <<>> THEN [err |-> "none", results |-> <<>>]
     ELSE IF \E i \in 1..Len(scored) : scored[i] \notin DOMAIN p.termIndex
       THEN [err |-> "TypeError", results |-> <<>>]
     ELSE [err |-> "none", results |-> Ranked(Keys(1, <<>>))]

\* what a hook call that threw is logged with, in place of a result list
Thrown == <<[id |-> NoId, content |-> 0, metadata |-> "TypeError", score |-> 0]>>

\* HybridSearch.afterSearch: Reciprocal Rank Fusion, then hydration
HybridAfterSearch(p, results, query) ==
  LET topK == Len(results)
      Fuse(kw) ==
        LET semIds == [i \in 1..Len(results) |-> results[i].id]
            kwIds == [i \in 1..Len(kw) |-> kw[i].id]
            RECURSIVE Weight(_, _, _, _)
            Weight(s, id, w, i) ==
              IF i > Len(s) THEN 0
              ELSE (IF s[i] = id THEN w * (RRFScale \div (RRF_K + i)) ELSE 0)
                   + Weight(s, id, w, i + 1)
            fusedScores(id) ==
              Weight(semIds, id, p.alpha[1], 1)
              + Weight(kwIds, id, p.alpha[2] - p.alpha[1], 1)
            RECURSIVE Distinct(_, _)
            Distinct(s, acc) ==
              IF s = <<>> THEN acc ELSE Distinct(Tail(s), SetAdd(acc, Head(s)))
            entries == Distinct(semIds \o kwIds, <<>>)
            top == Take(SortByScoreDesc([i \in 1..Len(entries) |->
                     [id |-> entries[i], score |-> fusedScores(entries[i])]]), topK)
            semantic(id) ==
              results[CHOOSE i \in 1..Len(results) :
                        results[i].id = id /\ \A j \in (i + 1)..Len(results) : results[j].id # id]
            Hydrate(e) ==
              IF e.id \in Elems(semIds) THEN <<[semantic(e.id) EXCEPT !.score = e.score]>>
              ELSE IF e.id \notin DOMAIN p.storedDocs THEN <<>>
              ELSE <<[id |-> e.id, content |-> p.storedDocs[e.id].content,
                      metadata |-> p.storedDocs[e.id].metadata, score |-> e.score]>>
            RECURSIVE FlatMap(_)
            FlatMap(s) == IF s = <<>> THEN <<>> ELSE Hydrate(Head(s)) \o FlatMap(Tail(s))
        IN FlatMap(top)
      Fused(kw) == IF kw.err # "none" THEN Thrown ELSE Fuse(kw.results)
  IN Fused(bm25Search(p, query, Max2(topK, MIN_CANDIDATE_K) * CANDIDATE_MULTIPLIER))

\* QueryCache(opts); now is what Date.now() returns to its hooks, cache the
\* Map of query to [results, expires]
QueryCache(maxSize, ttl) ==
  [name |-> "QueryCache", kind |-> "QueryCache",
   hooks |-> {"beforeSearch", "afterSearch", "onClear"},
   maxSize |-> maxSize, ttl |-> ttl, now |-> 0,
   cache |-> [order |-> <<>>, entry |-> EmptyMap]]

\* a cache that never lets an entry expire
CacheHitForever(p, query) == query \in DOMAIN p.cache.entry

\* const entry = cache.get(ctx.query); entry && Date.now() < entry.expires
CacheHit(p, query) ==
  query \in DOMAIN p.cache.entry /\ p.now < p.cache.entry[query].expires

\* a predicate that keeps every result
satisfiesAll(p, r) == TRUE

\* predicate(r.metadata ?? {}) of the MetadataFilter p
satisfies(p, r) == r.metadata = p.keep

\* MetadataFilter(predicate) with predicate = (meta) => meta is keep
MetadataFilter(keep) ==
  [name |-> "MetadataFilter", kind |-> "MetadataFilter", hooks |-> {"afterSearch"},
   keep |-> keep]

\* the Power as the hook calls logged for it leave it
PowerAfter(p, log) ==
  LET Cached(q, e) ==
        LET room == IF Len(q.cache.order) >= q.maxSize /\ q.cache.order # <<>>
                      THEN [order |-> Tail(q.cache.order),
                            entry |-> MapDel(q.cache.entry, Head(q.cache.order))]
                      ELSE q.cache
        IN [q EXCEPT !.cache =
              [order |-> SetAdd(room.order, e.query),
               entry |-> MapPut(room.entry, e.query,
                                [results |-> e.in, expires |-> q.now + q.ttl])]]
      Called(q, e) ==
        CASE q.kind = "HybridSearch" /\ e.hook = "afterAdd" -> indexDocuments(q, e.in)
          [] q.kind = "HybridSearch" /\ e.hook = "onDelete" -> removeDocument(q, e.in)
          [] q.kind = "HybridSearch" /\ e.hook = "onClear" -> HybridSearch(q.alpha)
          [] q.kind = "QueryCache" /\ e.hook = "afterSearch" -> Cached(q, e)
          [] q.kind = "QueryCache" /\ e.hook = "onClear" ->
               [q EXCEPT !.cache = [order |-> <<>>, entry |-> EmptyMap]]
          [] OTHER -> q
      RECURSIVE After(_, _)
      After(q, i) ==
        IF i > Len(log) THEN q
        ELSE After(IF log[i].power = q.name THEN Called(q, log[i]) ELSE q, i + 1)
  IN After(p, 1)

PowersAfter(ps, log) == [i \in 1..Len(ps) |-> PowerAfter(ps[i], log)]

\* power.beforeAdd(docs)
BeforeAddHook(p, ds) ==
  CASE p.kind = "rewrite" ->
         [i \in 1..Len(ds) |-> [ds[i] EXCEPT !.content = Rot(@)]]
    [] p.kind = "trim" -> SubSeq(ds, 1, Len(ds) - 1)
    [] OTHER -> ds

\* power.beforeSearch(ctx); ctx.shortCircuit is None when the field is unset
BeforeSearchHook(p, ctx) ==
  CASE p.kind = "rewrite" -> [ctx EXCEPT !.query = Rot(@)]
    [] p.kind = "trim" -> [ctx EXCEPT !.topK = 1]
    [] p.kind = "cache" ->
         IF ctx.query = 1 THEN [ctx EXCEPT !.shortCircuit = Some(CannedResults)]
         ELSE ctx
    [] p.kind = "QueryCache" ->
         IF CacheHit(p, ctx.query)
           THEN [ctx EXCEPT !.shortCircuit = Some(p.cache.entry[ctx.query].results)]
           ELSE ctx
    [] OTHER -> ctx

\* power.afterSearch(results, query)
AfterSearchHook(p, results, query) ==
  CASE p.kind = "rewrite" -> Reverse(results)
    [] p.kind = "trim" -> IF results = <<>> THEN results ELSE Tail(results)
    [] p.kind = "HybridSearch" -> HybridAfterSearch(p, results, query)
    [] p.kind = "MetadataFilter" -> SelectSeq(results, LAMBDA r : satisfies(p, r))
    [] OTHER -> results

\* power.embed for one text: "rewrite" is another model of the engine's
\* dimension, "trim" a model of a smaller dimension
EmbedHook(p, text) ==
  CASE p.kind = "rewrite" -> UnitVecs[(text % Len(UnitVecs)) + 1]
    [] OTHER -> ShortVec

BuiltIn == [name |-> "SimpleEmbeddingModel", kind |-> "builtin", hooks |-> {"embed"}]

\* _resolveEmbedder: scan the registry from its end for a Power with embed
RECURSIVE ResolveFrom(_, _)
ResolveFrom(ps, i) ==
  IF i < 1 THEN BuiltIn
  ELSE IF "embed" \in ps[i].hooks THEN ps[i]
  ELSE ResolveFrom(ps, i - 1)

\* first-writer-wins: the first Power of the registry that defines embed
resolveFirstEmbedder(ps) ==
  IF \A i \in 1..Len(ps) : "embed" \notin ps[i].hooks THEN BuiltIn
  ELSE ps[CHOOSE i \in 1..Len(ps) :
            "embed" \in ps[i].hooks /\ \A j \in 1..(i - 1) : "embed" \notin ps[j].hooks]

_resolveEmbedder(ps) == ResolveFrom(ps, Len(ps))

EmbedOne(e, text) ==
  IF e.kind = "builtin" THEN createEmbedding(text) ELSE EmbedHook(e, text)

\* embedder.embed(texts), and the record of the call
EmbedAll(e, texts) == [i \in 1..Len(texts) |-> EmbedOne(e, texts[i])]

EmbedCall(e, texts) ==
  [hook |-> "embed", power |-> e.name, in |-> texts, out |-> EmbedAll(e, texts)]

\* a beforeAdd loop that hands every hook the caller's documents
RECURSIVE RunBeforeAddUnchained(_, _, _)
RunBeforeAddUnchained(ps, ds, log) ==
  IF ps = <<>>
    THEN [docs |-> IF log = <<>> THEN ds ELSE log[Len(log)].out, log |-> log]
  ELSE IF "beforeAdd" \in Head(ps).hooks
    THEN RunBeforeAddUnchained(Tail(ps), ds,
           Append(log, [hook |-> "beforeAdd", power |-> Head(ps).name,
                        in |-> ds, out |-> BeforeAddHook(Head(ps), ds)]))
    ELSE RunBeforeAddUnchained(Tail(ps), ds, log)

\* for (const power of this._powers) if (power.beforeAdd) docs = await ...
RECURSIVE RunBeforeAdd(_, _, _)
RunBeforeAdd(ps, ds, log) ==
  IF ps = <<>> THEN [docs |-> ds, log |-> log]
  ELSE IF "beforeAdd" \in Head(ps).hooks
    THEN LET out == BeforeAddHook(Head(ps), ds)
         IN RunBeforeAdd(Tail(ps), out,
              Append(log, [hook |-> "beforeAdd", power |-> Head(ps).name,
                           in |-> ds, out |-> out]))
    ELSE RunBeforeAdd(Tail(ps), ds, log)

\* notification loops of an engine whose clear fires no onClear hook
RECURSIVE RunNotifySkipsClear(_, _, _, _)
RunNotifySkipsClear(ps, hook, arg, log) ==
  IF ps = <<>> \/ hook = "onClear" THEN log
  ELSE IF hook \in Head(ps).hooks
    THEN RunNotifySkipsClear(Tail(ps), hook, arg,
           Append(log, [hook |-> hook, power |-> Head(ps).name, in |-> arg]))
    ELSE RunNotifySkipsClear(Tail(ps), hook, arg, log)

\* notification loops that go on to the next Power after a hook has thrown
RECURSIVE RunNotifyGoesOn(_, _, _, _)
RunNotifyGoesOn(ps, hook, arg, log) ==
  IF ps = <<>> THEN log
  ELSE IF hook \in Head(ps).hooks
    THEN RunNotifyGoesOn(Tail(ps), hook, arg,
           Append(log, IF Head(ps).kind = "throws"
                         THEN [hook |-> hook, power |-> Head(ps).name, in |-> arg,
                               threw |-> TRUE]
                         ELSE [hook |-> hook, power |-> Head(ps).name, in |-> arg]))
    ELSE RunNotifyGoesOn(Tail(ps), hook, arg, log)

\* the loops over afterAdd, onDelete and onClear: notifications without result
RECURSIVE RunNotify(_, _, _, _)
RunNotify(ps, hook, arg, log) ==
  IF ps = <<>> THEN log
  ELSE IF hook \in Head(ps).hooks
    THEN IF Head(ps).kind = "throws"
           \* the hook rejects: the await throws out of the loop
           THEN Append(log, [hook |-> hook, power |-> Head(ps).name, in |-> arg,
                             threw |-> TRUE])
           ELSE RunNotify(Tail(ps), hook, arg,
                  Append(log, [hook |-> hook, power |-> Head(ps).name, in |-> arg]))
    ELSE RunNotify(Tail(ps), hook, arg, log)

\* the error a notification loop with this log left its caller with
NotifyErr(log) ==
  IF log # <<>> /\ "threw" \in DOMAIN log[Len(log)] THEN "HookError" ELSE "none"

\* a search that never takes the short cut
NeverShortCircuited(ctx) == FALSE

\* if (ctx.shortCircuit): any list, the empty one too, is truthy
ShortCircuited(ctx) == ctx.shortCircuit # None

\* the beforeSearch loop, which returns at the first shortCircuit
RECURSIVE RunBeforeSearch(_, _, _)
RunBeforeSearch(ps, ctx, log) ==
  IF ps = <<>> THEN [ctx |-> ctx, log |-> log]
  ELSE IF "beforeSearch" \in Head(ps).hooks
    THEN LET out == BeforeSearchHook(Head(ps), ctx)
             log2 == Append(log, [hook |-> "beforeSearch", power |-> Head(ps).name,
                                  in |-> ctx, out |-> out])
         IN IF ShortCircuited(out) THEN [ctx |-> out, log |-> log2]
            ELSE RunBeforeSearch(Tail(ps), out, log2)
    ELSE RunBeforeSearch(Tail(ps), ctx, log)

\* the afterSearch loop; a hook that throws ends it.  Result: [results, log, err]
RECURSIVE RunAfterSearch(_, _, _, _)
RunAfterSearch(ps, results, query, log) ==
  IF ps = <<>> THEN [results |-> results, log |-> log, err |-> "none"]
  ELSE IF "afterSearch" \in Head(ps).hooks
    THEN LET Called(out) ==
               LET log2 == Append(log, [hook |-> "afterSearch",
                                        power |-> Head(ps).name, in |-> results,
                                        query |-> query, out |-> out])
               IN IF out = Thrown
                    THEN [results |-> <<>>, log |-> log2, err |-> "TypeError"]
                    ELSE RunAfterSearch(Tail(ps), out, query, log2)
         IN Called(AfterSearchHook(Head(ps), results, query))
    ELSE RunAfterSearch(Tail(ps), results, query, log)

DocsSize(d) == Len(d.order)

DocsHas(d, id) == id \in DOMAIN d.entry

\* a set that leaves the entry of a key it already holds
DocsSetKeepsFirst(d, id, stored) ==
  IF id \in DOMAIN d.entry THEN d
  ELSE [order |-> Append(d.order, id),
        entry |-> [x \in (DOMAIN d.entry) \cup {id} |->
                     IF x = id THEN stored ELSE d.entry[x]]]

\* Map.set: a new key goes last, an existing key keeps its place
DocsSet(d, id, stored) ==
  [order |-> SetAdd(d.order, id), entry |-> MapPut(d.entry, id, stored)]

DocsDelete(d, id) ==
  [order |-> SetDelete(d.order, id), entry |-> MapDel(d.entry, id)]

\* a switch that already takes the index at annThreshold documents
shouldUseANNAtThreshold(d, options) ==
  options.useANN /\ Len(d.order) >= options.annThreshold

ensureHNSW(h, options) ==
  IF h = None THEN NewHNSW(EMBEDDING_DIM, options.m) ELSE h[1]

shouldUseANN(d, options) == options.useANN /\ DocsSize(d) > options.annThreshold

\* the store loop of add: st = [docs, hnsw]; levels[i] is what randomLevel()
\* returns if the i-th document is inserted into the HNSW index
RECURSIVE StoreDocs(_, _, _, _, _, _)
StoreDocs(st, options, ds, embeddings, levels, i) ==
  LET \* try { idx.add(...) } catch { }: the index stays as a throwing add
      \* left it
      Synced(docs2, idx) ==
        [docs |-> docs2,
         hnsw |-> Some(IF HSize(idx) < DocsSize(docs2)
                         THEN HnswAdd(idx, ds[i].id, embeddings[i], levels[i]).h
                         ELSE idx)]
      Stored(docs2) ==
        IF options.useANN THEN Synced(docs2, ensureHNSW(st.hnsw, options))
        ELSE [st EXCEPT !.docs = docs2]
  IN IF i > Len(ds) THEN st
     ELSE StoreDocs(Stored(DocsSet(st.docs, ds[i].id,
                      [content |-> ds[i].content, metadata |-> ds[i].metadata,
                       embedding |-> embeddings[i]])),
                    options, ds, embeddings, levels, i + 1)

\* an add that runs the beforeAdd hooks and then goes on with the caller's list
EngineAddOriginal(d, h, ps, options, documents, levels) ==
  LET Texts(ds) == [i \in 1..Len(ds) |-> ds[i].content]
      e == _resolveEmbedder(ps)
      log1 == Append(RunBeforeAdd(ps, documents, <<>>).log, EmbedCall(e, Texts(documents)))
      st == StoreDocs([docs |-> d, hnsw |-> h], options, documents,
                      EmbedAll(e, Texts(documents)), levels, 1)
  IN IF documents = <<>>
       THEN [docs |-> d, hnsw |-> h, log |-> <<>>, err |-> "none", stored |-> <<>>]
       ELSE [docs |-> st.docs, hnsw |-> st.hnsw,
             log |-> RunNotify(ps, "afterAdd", documents, log1),
             err |-> NotifyErr(RunNotify(ps, "afterAdd", documents, log1)),
             stored |-> documents]

\* an add that fires afterAdd whether or not the embedder rejected
EngineAddNotifiesAnyway(d, h, ps, options, documents, levels) ==
  LET Texts(ds) == [i \in 1..Len(ds) |-> ds[i].content]
      b == RunBeforeAdd(ps, documents, <<>>)
      e == _resolveEmbedder(ps)
      failed == Append(b.log, [hook |-> "embed", power |-> e.name,
                               in |-> Texts(b.docs), threw |-> TRUE])
      st == StoreDocs([docs |-> d, hnsw |-> h], options, b.docs,
                      EmbedAll(e, Texts(b.docs)), levels, 1)
      log2 == Append(b.log, EmbedCall(e, Texts(b.docs)))
  IN IF documents = <<>>
       THEN [docs |-> d, hnsw |-> h, log |-> <<>>, err |-> "none", stored |-> <<>>]
     ELSE IF e.kind = "throws"
       THEN [docs |-> d, hnsw |-> h,
             log |-> RunNotify(ps, "afterAdd", b.docs, failed),
             err |-> "EmbedError", stored |-> <<>>]
     ELSE [docs |-> st.docs, hnsw |-> st.hnsw,
           log |-> RunNotify(ps, "afterAdd", b.docs, log2),
           err |-> NotifyErr(RunNotify(ps, "afterAdd", b.docs, log2)),
           stored |-> b.docs]

\* SemanticEngine.add.  Result: [docs, hnsw, log, stored] with stored the
\* document list that went through the store loop.
EngineAdd(d, h, ps, options, documents, levels) ==
  LET Texts(ds) == [i \in 1..Len(ds) |-> ds[i].content]
      Finish(b, st, log2) ==
        [docs |-> st.docs, hnsw |-> st.hnsw,
         log |-> RunNotify(ps, "afterAdd", b.docs, log2),
         err |-> NotifyErr(RunNotify(ps, "afterAdd", b.docs, log2)),
         stored |-> b.docs]
      Embedded(b, e) ==
        IF e.kind = "throws"
          \* embed rejects: the await throws out of add
          THEN [docs |-> d, hnsw |-> h,
                log |-> Append(b.log, [hook |-> "embed", power |-> e.name,
                                       in |-> Texts(b.docs), threw |-> TRUE]),
                err |-> "EmbedError", stored |-> <<>>]
          ELSE Finish(b,
                      StoreDocs([docs |-> d, hnsw |-> h], options, b.docs,
                                EmbedAll(e, Texts(b.docs)), levels, 1),
                      Append(b.log, EmbedCall(e, Texts(b.docs))))
  IN IF documents = <<>>
       THEN [docs |-> d, hnsw |-> h, log |-> <<>>, err |-> "none", stored |-> <<>>]
       ELSE Embedded(RunBeforeAdd(ps, documents, <<>>), _resolveEmbedder(ps))

searchBruteForce(d, queryVec, topK) ==
  LET results == [i \in 1..Len(d.order) |->
                    LET id == d.order[i]
                    IN [id |-> id, content |-> d.entry[id].content,
                        metadata |-> d.entry[id].metadata,
                        score |-> BruteForceDot(d.entry[id].embedding, queryVec)]]
  IN Take(SortByScoreDesc(results), topK)

\* Result: [err, results]; a hit whose id is not in the document store makes
\* stored.content a TypeError
searchANN(d, idx, options, queryVec, topK) ==
  LET Stored(hits) ==
        IF hits.err # "none" THEN [err |-> hits.err, results |-> <<>>]
        ELSE IF \E i \in 1..Len(hits.results) : ~DocsHas(d, hits.results[i].id)
          THEN [err |-> "TypeError", results |-> <<>>]
        ELSE [err |-> "none",
              results |-> [i \in 1..Len(hits.results) |->
                 [id |-> hits.results[i].id,
                  content |-> d.entry[hits.results[i].id].content,
                  metadata |-> d.entry[hits.results[i].id].metadata,
                  score |-> hits.results[i].score]]]
  IN Stored(HnswSearch(idx, queryVec, topK, options.efSearch))

\* SemanticEngine.search.  Result: [hnsw, err, results, log, route, core] with
\* route the retrieval used and core what it returned.
EngineSearch(d, h, ps, options, query, topK) ==
  LET \* the afterSearch chain has run
      Done(h2, route, core, a) ==
        [hnsw |-> h2, err |-> a.err, results |-> a.results, log |-> a.log,
         route |-> route, core |-> core.results]
      \* the core retrieval has returned or thrown
      AfterCore(ctx, log2, h2, route, core) ==
        IF core.err # "none"
          THEN [hnsw |-> h2, err |-> core.err, results |-> <<>>, log |-> log2,
                route |-> route, core |-> <<>>]
          ELSE Done(h2, route, core,
                    RunAfterSearch(ps, core.results, ctx.query, log2))
      \* if (this.shouldUseANN()) searchANN else searchBruteForce
      Core(ctx, log2, queryVec) ==
        IF shouldUseANN(d, options)
          THEN AfterCore(ctx, log2, Some(ensureHNSW(h, options)), "hnsw",
                 searchANN(d, ensureHNSW(h, options), options, queryVec, ctx.topK))
          ELSE AfterCore(ctx, log2, h, "bruteForce",
                 [err |-> "none",
                  results |-> searchBruteForce(d, queryVec, ctx.topK)])
      \* const [queryVec] = await this._resolveEmbedder().embed([ctx.query])
      Embedded(b, e) ==
        IF e.kind = "throws"
          \* embed rejects: the await throws out of search
          THEN [hnsw |-> h, err |-> "EmbedError", results |-> <<>>,
                log |-> Append(b.log, [hook |-> "embed", power |-> e.name,
                                       in |-> <<b.ctx.query>>, threw |-> TRUE]),
                route |-> "none", core |-> <<>>]
          ELSE Core(b.ctx, Append(b.log, EmbedCall(e, <<b.ctx.query>>)),
                    EmbedOne(e, b.ctx.query))
      \* the beforeSearch chain has run
      AfterBefore(b) ==
        IF ShortCircuited(b.ctx)
          THEN [hnsw |-> h, err |-> "none", results |-> b.ctx.shortCircuit[1],
                log |-> b.log, route |-> "shortCircuit", core |-> <<>>]
          ELSE Embedded(b, _resolveEmbedder(ps))
  IN IF DocsSize(d) = 0
       THEN [hnsw |-> h, err |-> "none", results |-> <<>>, log |-> <<>>,
             route |-> "empty", core |-> <<>>]
       ELSE AfterBefore(RunBeforeSearch(ps,
              [query |-> query, topK |-> topK, shortCircuit |-> None], <<>>))

\* a delete that leaves the HNSW index alone
EngineDeleteStoreOnly(d, h, ps, id) ==
  IF ~DocsHas(d, id) THEN [docs |-> d, hnsw |-> h, existed |-> FALSE, log |-> <<>>]
  ELSE [docs |-> DocsDelete(d, id), hnsw |-> h, existed |-> TRUE,
        log |-> RunNotify(ps, "onDelete", id, <<>>)]

\* SemanticEngine.delete.  Result: [docs, hnsw, existed, log]
EngineDelete(d, h, ps, id) ==
  IF ~DocsHas(d, id) THEN [docs |-> d, hnsw |-> h, existed |-> FALSE, log |-> <<>>]
  ELSE [docs |-> DocsDelete(d, id),
        hnsw |-> IF h = None THEN None ELSE Some(HnswDelete(h[1], id).h),
        existed |-> TRUE,
        log |-> RunNotify(ps, "onDelete", id, <<>>)]

\* SemanticEngine.toJSON: the store's entries in Map order, as [id, doc]
\* pairs; Array.from(Float32Array) keeps every component
EngineToJSON(d) ==
  [i \in 1..Len(d.order) |->
     <<d.order[i],
       [content |-> d.entry[d.order[i]].content,
        metadata |-> d.entry[d.order[i]].metadata,
        embedding |-> [j \in 1..Len(d.entry[d.order[i]].embedding) |->
                         d.entry[d.order[i]].embedding[j]]]>>]

\* the import loop of fromJSON: st = [docs, hnsw, imported, err]; an HNSW add
\* that throws ends the loop, no catch around it
RECURSIVE ImportDocs(_, _, _, _, _)
ImportDocs(st, options, data, levels, i) ==
  LET id == data[i][1]
      doc == data[i][2]
      Set(s) ==
        [s EXCEPT !.docs = DocsSet(@, id, doc),
                  !.imported = Append(@, [id |-> id, content |-> doc.content,
                                          metadata |-> doc.metadata])]
      Indexed(s, a) == [s EXCEPT !.hnsw = Some(a.h), !.err = a.err]
      Step(s) ==
        IF options.useANN
          THEN Indexed(s, HnswAdd(ensureHNSW(s.hnsw, options), id, doc.embedding,
                                  levels[i]))
          ELSE s
  IN IF i > Len(data) \/ st.err # "none" THEN st
     ELSE ImportDocs(Step(Set(st)), options, data, levels, i + 1)

\* SemanticEngine.fromJSON.  Result: [docs, hnsw, imported, err, log]; the
\* afterAdd hooks run only when the loop did not throw
EngineFromJSON(ps, options, data, levels) ==
  LET Notified(st) ==
        [docs |-> st.docs, hnsw |-> st.hnsw, imported |-> st.imported,
         err |-> IF st.err = "none"
                   THEN NotifyErr(RunNotify(ps, "afterAdd", st.imported, <<>>))
                   ELSE st.err,
         log |-> IF st.err = "none" THEN RunNotify(ps, "afterAdd", st.imported, <<>>)
                 ELSE <<>>]
  IN Notified(ImportDocs([docs |-> EmptyDocs, hnsw |-> None, imported |-> <<>>,
                          err |-> "none"], options, data, levels, 1))

\* a use that registers whatever it is given
EngineUseAnyName(ps, power) == [powers |-> Append(ps, power), err |-> "none"]

\* SemanticEngine.use.  Result: [powers, err]
EngineUse(ps, power) ==
  IF \E i \in 1..Len(ps) : ps[i].name = power.name
    THEN [powers |-> ps, err |-> "already registered"]
    ELSE [powers |-> Append(ps, power), err |-> "none"]

\* an eject that drops the Power registered last, whatever its name
EngineEjectLast(ps, name) ==
  IF \A i \in 1..Len(ps) : ps[i].name # name
    THEN [powers |-> ps, found |-> FALSE]
    ELSE [powers |-> SubSeq(ps, 1, Len(ps) - 1), found |-> TRUE]

\* SemanticEngine.eject.  Result: [powers, found]; findIndex takes the first
\* Power of that name
EngineEject(ps, name) ==
  IF \A i \in 1..Len(ps) : ps[i].name # name
    THEN [powers |-> ps, found |-> FALSE]
    ELSE LET idx == CHOOSE i \in 1..Len(ps) :
                      ps[i].name = name /\ \A j \in 1..(i - 1) : ps[j].name # name
         IN [powers |-> SubSeq(ps, 1, idx - 1) \o SubSeq(ps, idx + 1, Len(ps)),
             found |-> TRUE]

\* get powers(): the names, in registry order
PowersGetter(ps) == [i \in 1..Len(ps) |-> ps[i].name]

(***************************************************************************)
(* The engine's public methods, one action each.                           *)
(***************************************************************************)
\* the options a caller constructs the engine with
EngineOptions ==
  { DefaultOptions,
    [DefaultOptions EXCEPT !.annThreshold = 0],
    [DefaultOptions EXCEPT !.useANN = FALSE] }

Init ==
  /\ index = NewHNSW(EMBEDDING_DIM, DEFAULT_M)
  /\ docs = EmptyDocs
  /\ hnsw = None
  /\ powers = <<>>
  /\ cfg \in EngineOptions
  /\ ret = NoCall
  /\ removed = {}
  /\ inflight = NoCalls
  /\ budget = [index |-> 0, search |-> 0, engine |-> MaxEngineCalls, use |-> 0]

\* what randomLevel() may return for each document of a batch; 0 stands in
\* where no draw can happen (no index, no such document)
LevelDraws(documents) ==
  {levels \in [1..MaxBatch -> EngineLevels] :
     \A i \in 1..MaxBatch : (~cfg.useANN \/ i > Len(documents)) => levels[i] = 0}

Add ==
  /\ budget.engine > 0
  /\ \E documents \in Batches : \E levels \in LevelDraws(documents) :
       \E r \in {EngineAdd(docs, hnsw, powers, cfg, documents, levels)} :
         /\ budget' = [budget EXCEPT !.engine = @ - 1]
         /\ docs' = r.docs
         /\ hnsw' = r.hnsw
         /\ ret' = [op |-> "add", documents |-> documents, stored |-> r.stored,
                    err |-> r.err, log |-> r.log]
         /\ removed' = removed \ {r.stored[i].id : i \in 1..Len(r.stored)}
         /\ powers' = PowersAfter(powers, r.log)
         /\ UNCHANGED <<index, cfg, inflight>>

Search ==
  /\ budget.engine > 0
  /\ \E query \in Contents, topK \in 1..MaxK :
       \E r \in {EngineSearch(docs, hnsw, powers, cfg, query, topK)} :
         /\ budget' = [budget EXCEPT !.engine = @ - 1]
         /\ hnsw' = r.hnsw
         /\ ret' = [op |-> "search", query |-> query, topK |-> topK, err |-> r.err,
                    results |-> r.results, log |-> r.log, route |-> r.route,
                    core |-> r.core, before |-> powers]
         /\ powers' = PowersAfter(powers, r.log)
         /\ UNCHANGED <<index, docs, cfg, inflight, removed>>

Delete ==
  /\ budget.engine > 0
  /\ \E id \in DocIds :
       \E r \in {EngineDelete(docs, hnsw, powers, id)} :
         /\ budget' = [budget EXCEPT !.engine = @ - 1]
         /\ docs' = r.docs
         /\ hnsw' = r.hnsw
         /\ ret' = [op |-> "delete", id |-> id, result |-> r.existed, log |-> r.log]
         /\ removed' = IF r.existed THEN removed \cup {id} ELSE removed
         /\ powers' = PowersAfter(powers, r.log)
         /\ UNCHANGED <<index, cfg, inflight>>

\* this.docs.clear(); this.hnsw?.clear(); this.hnsw = null; then onClear
Clear ==
  /\ budget.engine > 0
  /\ budget' = [budget EXCEPT !.engine = @ - 1]
  /\ docs' = EmptyDocs
  /\ hnsw' = None
  /\ ret' = [op |-> "clear", log |-> RunNotify(powers, "onClear", "none", <<>>),
             before |-> powers]
  /\ powers' = PowersAfter(powers, RunNotify(powers, "onClear", "none", <<>>))
  /\ UNCHANGED <<index, cfg, inflight, removed>>

Use ==
  /\ budget.engine > 0
  /\ \E power \in PowerPool :
       \E r \in {EngineUse(powers, power)} :
         /\ budget' = [budget EXCEPT !.engine = @ - 1]
         /\ powers' = r.powers
         /\ ret' = [op |-> "use", power |-> power, err |-> r.err]
         /\ UNCHANGED <<index, docs, hnsw, cfg, inflight, removed>>

Eject ==
  /\ budget.engine > 0
  /\ \E name \in PowerNames :
       \E r \in {EngineEject(powers, name)} :
         /\ budget' = [budget EXCEPT !.engine = @ - 1]
         /\ powers' = r.powers
         /\ ret' = [op |-> "eject", name |-> name, result |-> r.found]
         /\ UNCHANGED <<index, docs, hnsw, cfg, inflight, removed>>

\* engine.fromJSON(engine.toJSON()): the round trip through the export
FromJSON ==
  /\ budget.engine > 0
  /\ \E levels \in {l \in [1..DocsSize(docs) -> EngineLevels] :
                      ~cfg.useANN => \A i \in 1..DocsSize(docs) : l[i] = 0} :
       \E r \in {EngineFromJSON(powers, cfg, EngineToJSON(docs), levels)} :
         /\ budget' = [budget EXCEPT !.engine = @ - 1]
         /\ docs' = r.docs
         /\ hnsw' = r.hnsw
         /\ ret' = [op |-> "fromJSON", data |-> EngineToJSON(docs), err |-> r.err,
                    log |-> r.log]
         /\ removed' = removed \ DOMAIN r.docs.entry
         /\ powers' = PowersAfter(powers, r.log)
         /\ UNCHANGED <<index, cfg, inflight>>

Next == Add \/ Search \/ Delete \/ Clear \/ Use \/ Eject

Spec == Init /\ [][Next]_vars

\* the engine with its export and import
NextJSON == Next \/ FromJSON

SpecJSON == Init /\ [][NextJSON]_vars

(***************************************************************************)
(* The engine with the Powers of lib/powers.                               *)
(***************************************************************************)
MaxPowerCalls == 3
MaxUses == 1
MaxCacheSize == 1
MaxTime == 2

\* the Powers a caller constructs: HybridSearch({alpha: 1}), HybridSearch()
\* and MetadataFilter
HybridLib == {HybridSearch(<<1, 1>>), HybridSearch(<<1, 2>>), MetadataFilter("pub")}

\* QueryCache({maxSize, ttl}) with a ttl of MaxTime
CacheLib == {QueryCache(maxSize, MaxTime) : maxSize \in 0..MaxCacheSize}

InitPowers ==
  /\ index = NewHNSW(EMBEDDING_DIM, DEFAULT_M)
  /\ docs = EmptyDocs
  /\ hnsw = None
  /\ powers = <<>>
  /\ cfg \in EngineOptions
  /\ ret = NoCall
  /\ removed = {}
  /\ inflight = NoCalls
  /\ budget = [index |-> 0, search |-> 0, engine |-> MaxPowerCalls, use |-> MaxUses]

\* engine.use(power) with a Power of lib/powers
UsePower(lib) ==
  /\ budget.use > 0
  /\ \E power \in lib :
       \E r \in {EngineUse(powers, power)} :
         /\ budget' = [budget EXCEPT !.use = @ - 1]
         /\ powers' = r.powers
         /\ ret' = [op |-> "use", power |-> power, err |-> r.err]
         /\ UNCHANGED <<index, docs, hnsw, cfg, inflight, removed>>

\* time passes between two calls: Date.now() grows
Tick ==
  /\ \E i \in 1..Len(powers) : powers[i].kind = "QueryCache" /\ powers[i].now < MaxTime
  /\ powers' = [i \in 1..Len(powers) |->
                  IF powers[i].kind = "QueryCache" THEN [powers[i] EXCEPT !.now = @ + 1]
                  ELSE powers[i]]
  /\ UNCHANGED <<index, docs, hnsw, cfg, inflight, ret, removed, budget>>

NextHybrid == Add \/ Search \/ Delete \/ Clear \/ FromJSON \/ UsePower(HybridLib)

SpecHybrid == InitPowers /\ [][NextHybrid]_vars

NextCache == Add \/ Search \/ Delete \/ Clear \/ FromJSON \/ UsePower(CacheLib) \/ Tick

SpecCache == InitPowers /\ [][NextCache]_vars

\* the engine with HybridSearch({alpha: 1}), followed over the longer call
\* sequences in which a document is added, deleted and searched for
MaxAlphaCalls == 4

AlphaOneLib == {HybridSearch(<<1, 1>>)}

InitAlphaOne ==
  /\ index = NewHNSW(EMBEDDING_DIM, DEFAULT_M)
  /\ docs = EmptyDocs
  /\ hnsw = None
  /\ powers = <<>>
  /\ cfg \in EngineOptions
  /\ ret = NoCall
  /\ removed = {}
  /\ inflight = NoCalls
  /\ budget = [index |-> 0, search |-> 0, engine |-> MaxAlphaCalls, use |-> MaxUses]

NextAlphaOne == Add \/ Search \/ Delete \/ UsePower(AlphaOneLib)

SpecAlphaOne == InitAlphaOne /\ [][NextAlphaOne]_vars

\* EmbeddingSwap(embedFn) with embedFn a model of a smaller dimension than
\* the engine's
EmbeddingSwap == [name |-> "EmbeddingSwap", kind |-> "EmbeddingSwap", hooks |-> {"embed"}]

\* the engine whose embedder a caller swaps, before or after documents are
\* added
NextSwap == Add \/ Search \/ Delete \/ Clear \/ FromJSON \/ UsePower({EmbeddingSwap})

SpecSwap == InitPowers /\ [][NextSwap]_vars

\* the engine with Powers that listen to afterAdd, one of which throws
MaxListeners == 2

ListenerLib ==
  { [name |-> "Failing", kind |-> "throws", hooks |-> {"afterAdd"}],
    [name |-> "Listener", kind |-> "plain", hooks |-> {"afterAdd", "onDelete"}] }

InitListeners ==
  /\ index = NewHNSW(EMBEDDING_DIM, DEFAULT_M)
  /\ docs = EmptyDocs
  /\ hnsw = None
  /\ powers = <<>>
  /\ cfg \in EngineOptions
  /\ ret = NoCall
  /\ removed = {}
  /\ inflight = NoCalls
  /\ budget = [index |-> 0, search |-> 0, engine |-> MaxPowerCalls, use |-> MaxListeners]

NextListeners == Add \/ Search \/ Delete \/ Clear \/ FromJSON \/ UsePower(ListenerLib)

SpecListeners == InitListeners /\ [][NextListeners]_vars

\* the engine with HybridSearch({alpha: 0}), over the same call sequences
NextAlphaZero == Add \/ Search \/ Delete \/ UsePower({HybridSearch(<<0, 1>>)})

SpecAlphaZero == InitAlphaOne /\ [][NextAlphaZero]_vars

(***************************************************************************)
(* fromJSON with data that is not the engine's own export of the moment:   *)
(* an export taken from another engine, or edited by hand.                 *)
(***************************************************************************)
\* the entries toJSON writes for the documents of b, with these embeddings
JSONOf(b, embeddings) ==
  [i \in 1..Len(b) |->
     <<b[i].id, [content |-> b[i].content, metadata |-> b[i].metadata,
                 embedding |-> embeddings[i]]>>]

\* what toJSON returns on an engine with the default embedder: ids differ,
\* every embedding has the engine's dimension
Exports ==
  {JSONOf(b, [i \in 1..Len(b) |-> createEmbedding(b[i].content)]) :
     b \in {c \in Batches : \A i, j \in 1..Len(c) : c[i].id = c[j].id => i = j}}

\* data fromJSON accepts by its type: an id may repeat, an embedding may have
\* any length
AnyJSON ==
  UNION {{JSONOf(b, e) :
            e \in {f \in [1..Len(b) -> Vectors \cup {ShortVec}] :
                     \A i \in 1..Len(b) : f[i] \in {createEmbedding(b[i].content), ShortVec}}} :
         b \in Batches}

\* engine.fromJSON(data)
ImportJSON(imports) ==
  /\ budget.engine > 0
  /\ \E data \in imports : \E levels \in LevelDraws(data) :
       \E r \in {EngineFromJSON(powers, cfg, data, levels)} :
         /\ budget' = [budget EXCEPT !.engine = @ - 1]
         /\ docs' = r.docs
         /\ hnsw' = r.hnsw
         /\ ret' = [op |-> "fromJSON", data |-> data, err |-> r.err, log |-> r.log,
                    docsBefore |-> docs]
         /\ removed' = removed \ DOMAIN r.docs.entry
         /\ powers' = PowersAfter(powers, r.log)
         /\ UNCHANGED <<index, cfg, inflight>>

ImportLib == {HybridSearch(<<0, 1>>), HybridSearch(<<1, 2>>)}

NextImport ==
  Add \/ Search \/ Delete \/ Clear \/ ImportJSON(Exports) \/ UsePower(ImportLib)

SpecImport == InitPowers /\ [][NextImport]_vars

\* the engine without Powers, importing any data
NextAnyImport == Add \/ Search \/ Delete \/ Clear \/ ImportJSON(AnyJSON)

SpecAnyImport == Init /\ [][NextAnyImport]_vars

(***************************************************************************)
(* The engine with up to MaxStack of the Powers of lib/powers registered   *)
(* together, in any order.                                                 *)
(***************************************************************************)
MaxStack == 2

StackLib ==
  {MetadataFilter("pub"), HybridSearch(<<0, 1>>), QueryCache(MaxCacheSize, MaxTime)}

InitStack ==
  /\ index = NewHNSW(EMBEDDING_DIM, DEFAULT_M)
  /\ docs = EmptyDocs
  /\ hnsw = None
  /\ powers = <<>>
  /\ cfg \in EngineOptions
  /\ ret = NoCall
  /\ removed = {}
  /\ inflight = NoCalls
  /\ budget = [index |-> 0, search |-> 0, engine |-> MaxPowerCalls, use |-> MaxStack]

NextStack == Add \/ Search \/ Delete \/ Clear \/ UsePower(StackLib)

SpecStack == InitStack /\ [][NextStack]_vars

(***************************************************************************)
(* The engine with an embedder that rejects.                               *)
(***************************************************************************)
\* a Power whose embed hook rejects every call
FailingEmbedder == [name |-> "FailingEmbedder", kind |-> "throws", hooks |-> {"embed"}]

RejectLib == {FailingEmbedder, HybridSearch(<<1, 2>>), QueryCache(MaxCacheSize, MaxTime)}

NextReject == Add \/ Search \/ Delete \/ Clear \/ UsePower(RejectLib)

SpecReject == InitStack /\ [][NextReject]_vars

(***************************************************************************)
(* An engine constructed with its own m, efConstruction and efSearch, and   *)
(* a caller that adds one document per call, the document of id i having   *)
(* the text i.                                                             *)
(***************************************************************************)
NumTunedIds == 3
MaxTunedCalls == 4

TunedOptions ==
  {[DefaultOptions EXCEPT !.annThreshold = 0, !.m = m, !.efConstruction = c,
                          !.efSearch = s] : m \in {2, 3}, c \in {1, 40}, s \in {1, 64}}

InitTuned ==
  /\ index = NewHNSW(EMBEDDING_DIM, DEFAULT_M)
  /\ docs = EmptyDocs
  /\ hnsw = None
  /\ powers = <<>>
  /\ cfg \in TunedOptions
  /\ ret = NoCall
  /\ removed = {}
  /\ inflight = NoCalls
  /\ budget = [index |-> 0, search |-> 0, engine |-> MaxTunedCalls, use |-> 0]

AddOne ==
  /\ budget.engine > 0
  /\ \E id \in 1..NumTunedIds, level \in EngineLevels :
       \E r \in {EngineAdd(docs, hnsw, powers, cfg,
                    <<[id |-> id, content |-> id, metadata |-> MetaOf(id)]>>,
                    [i \in 1..MaxBatch |-> IF i = 1 THEN level ELSE 0])} :
         /\ KnownOrNext(id, {j \in 1..NumTunedIds : DocsHas(docs, j)} \cup removed)
         /\ budget' = [budget EXCEPT !.engine = @ - 1]
         /\ docs' = r.docs
         /\ hnsw' = r.hnsw
         /\ ret' = [op |-> "add", id |-> id, level |-> level, err |-> r.err]
         /\ removed' = removed \ {id}
         /\ UNCHANGED <<index, powers, cfg, inflight>>

NextTuned == AddOne \/ Search \/ Delete

SpecTuned == InitTuned /\ [][NextTuned]_vars

(***************************************************************************)
(* Engine calls that overlap.  Every public method is async: a call runs   *)
(* to its first await, is suspended there, and is resumed later, other     *)
(* calls running in between.  The engine here has QueryCache registered,   *)
(* so add is suspended once, at embedder.embed (no Power has beforeAdd or  *)
(* afterAdd), and search once between its beforeSearch hook and the core   *)
(* retrieval (the awaits of beforeSearch and of embed, between which the   *)
(* call touches no state); delete has no await (no Power has onDelete) and *)
(* clear awaits onClear after its last assignment.                         *)
(***************************************************************************)
MaxAsyncCalls == 3

\* the registry the overlapping calls run with: use(QueryCache({maxSize: 1}))
AsyncPowers == <<QueryCache(1, MaxTime)>>

InitAsync ==
  /\ index = NewHNSW(EMBEDDING_DIM, DEFAULT_M)
  /\ docs = EmptyDocs
  /\ hnsw = None
  /\ powers = AsyncPowers
  /\ cfg \in EngineOptions
  /\ ret = NoCall
  /\ removed = {}
  /\ inflight = NoCalls
  /\ budget = [index |-> 0, search |-> 0, engine |-> MaxAsyncCalls, use |-> 0]

\* search from the line after the embed await: core retrieval, afterSearch
\* chain.  Result: [hnsw, err, results, log]
EngineSearchResume(d, h, ps, options, ctx) ==
  LET queryVec == EmbedOne(_resolveEmbedder(ps), ctx.query)
      Hooked(h2, core) ==
        IF core.err # "none"
          THEN [hnsw |-> h2, err |-> core.err, results |-> <<>>, log |-> <<>>]
          ELSE LET a == RunAfterSearch(ps, core.results, ctx.query, <<>>)
               IN [hnsw |-> h2, err |-> a.err, results |-> a.results, log |-> a.log]
  IN IF shouldUseANN(d, options)
       THEN Hooked(Some(ensureHNSW(h, options)),
                   searchANN(d, ensureHNSW(h, options), options, queryVec, ctx.topK))
       ELSE Hooked(h, [err |-> "none",
                       results |-> searchBruteForce(d, queryVec, ctx.topK)])

\* add(documents) up to "await this._resolveEmbedder().embed(texts)"
StartAdd ==
  /\ budget.engine > 0
  /\ \E documents \in Batches :
       inflight' =
         IF documents = <<>>
           THEN [inflight EXCEPT !.done = Append(@, [op |-> "add", documents |-> documents,
                                                     levels |-> [i \in 1..MaxBatch |-> 0]])]
           ELSE [inflight EXCEPT !.pending = Append(@, [op |-> "add", documents |-> documents])]
  /\ budget' = [budget EXCEPT !.engine = @ - 1]
  /\ UNCHANGED <<index, docs, hnsw, powers, cfg, ret, removed>>

\* a suspended add resumes: store loop, afterAdd loop, return
FinishAdd ==
  \E k \in 1..Len(inflight.pending) :
    /\ inflight.pending[k].op = "add"
    /\ \E levels \in LevelDraws(inflight.pending[k].documents) :
         \E r \in {EngineAdd(docs, hnsw, powers, cfg, inflight.pending[k].documents, levels)} :
           /\ docs' = r.docs
           /\ hnsw' = r.hnsw
           /\ powers' = PowersAfter(powers, r.log)
           /\ inflight' =
                [pending |-> [i \in 1..(Len(inflight.pending) - 1) |->
                               inflight.pending[IF i < k THEN i ELSE i + 1]],
                 done |-> Append(inflight.done,
                            [op |-> "add", documents |-> inflight.pending[k].documents,
                             levels |-> levels])]
    /\ UNCHANGED <<index, cfg, ret, removed, budget>>

\* search(query, topK) up to the await of the beforeSearch hook: the size
\* test and a cache hit return at once
StartSearch ==
  /\ budget.engine > 0
  /\ \E query \in Contents, topK \in 1..MaxK :
       \E b \in {RunBeforeSearch(powers,
                    [query |-> query, topK |-> topK, shortCircuit |-> None], <<>>)} :
         inflight' =
           IF DocsSize(docs) = 0
             THEN [inflight EXCEPT !.done = Append(@, [op |-> "search", query |-> query,
                      topK |-> topK, err |-> "none", results |-> <<>>])]
           ELSE IF ShortCircuited(b.ctx)
             THEN [inflight EXCEPT !.done = Append(@, [op |-> "search", query |-> query,
                      topK |-> topK, err |-> "none", results |-> b.ctx.shortCircuit[1]])]
           ELSE [inflight EXCEPT !.pending = Append(@, [op |-> "search", query |-> query,
                      topK |-> topK, ctx |-> b.ctx])]
  /\ budget' = [budget EXCEPT !.engine = @ - 1]
  /\ UNCHANGED <<index, docs, hnsw, powers, cfg, ret, removed>>

\* a suspended search resumes: core retrieval, afterSearch loop, return
FinishSearch ==
  \E k \in 1..Len(inflight.pending) :
    /\ inflight.pending[k].op = "search"
    /\ \E r \in {EngineSearchResume(docs, hnsw, powers, cfg, inflight.pending[k].ctx)} :
         /\ hnsw' = r.hnsw
         /\ powers' = PowersAfter(powers, r.log)
         /\ inflight' =
              [pending |-> [i \in 1..(Len(inflight.pending) - 1) |->
                             inflight.pending[IF i < k THEN i ELSE i + 1]],
               done |-> Append(inflight.done,
                          [op |-> "search", query |-> inflight.pending[k].query,
                           topK |-> inflight.pending[k].topK, err |-> r.err,
                           results |-> r.results])]
    /\ UNCHANGED <<index, docs, cfg, ret, removed, budget>>

\* delete(id), which runs to its return
CallDelete ==
  /\ budget.engine > 0
  /\ \E id \in DocIds :
       \E r \in {EngineDelete(docs, hnsw, powers, id)} :
         /\ docs' = r.docs
         /\ hnsw' = r.hnsw
         /\ powers' = PowersAfter(powers, r.log)
         /\ inflight' = [inflight EXCEPT !.done =
               Append(@, [op |-> "delete", id |-> id, result |-> r.existed])]
  /\ budget' = [budget EXCEPT !.engine = @ - 1]
  /\ UNCHANGED <<index, cfg, ret, removed>>

\* clear(), whose assignments and onClear call precede its await
CallClear ==
  /\ budget.engine > 0
  /\ docs' = EmptyDocs
  /\ hnsw' = None
  /\ powers' = PowersAfter(powers, RunNotify(powers, "onClear", "none", <<>>))
  /\ inflight' = [inflight EXCEPT !.done = Append(@, [op |-> "clear"])]
  /\ budget' = [budget EXCEPT !.engine = @ - 1]
  /\ UNCHANGED <<index, cfg, ret, removed>>

NextAsync ==
  StartAdd \/ FinishAdd \/ StartSearch \/ FinishSearch \/ CallDelete \/ CallClear

SpecAsync == InitAsync /\ [][NextAsync]_vars

(***************************************************************************)
(* use and eject while a call is suspended in a hook.  The hook loops are  *)
(* "for (const power of this._powers) if (power.h) await power.h(...)":    *)
(* the array iterator holds the index of the next element to read, and     *)
(* reads the array as use (push) and eject (splice) have left it.  A call  *)
(* is suspended at each await, that is after each hook it has called.      *)
(***************************************************************************)
MaxLoopCalls == 3
MaxLoopUses == 3

LoopLib ==
  { [name |-> "L1", kind |-> "plain", hooks |-> {"onClear", "onDelete"}],
    [name |-> "L2", kind |-> "plain", hooks |-> {"onClear", "onDelete"}],
    [name |-> "L3", kind |-> "plain", hooks |-> {"onClear"}] }

InitLoop ==
  /\ index = NewHNSW(EMBEDDING_DIM, DEFAULT_M)
  /\ docs = EmptyDocs
  /\ hnsw = None
  /\ powers = <<>>
  /\ cfg = DefaultOptions
  /\ ret = NoCall
  /\ removed = {}
  /\ inflight = NoCalls
  /\ budget = [index |-> 0, search |-> 0, engine |-> MaxLoopCalls, use |-> MaxLoopUses]

\* the next step of the array iterator at index idx (1-based) of a hook loop:
\* the first Power from there on that defines the hook, 0 if the array ends
NextWith(ps, hook, idx) ==
  IF \A j \in idx..Len(ps) : hook \notin ps[j].hooks THEN 0
  ELSE CHOOSE j \in idx..Len(ps) :
         hook \in ps[j].hooks /\ \A k \in idx..(j - 1) : hook \notin ps[k].hooks

\* the loop of call c runs on from index idx until it has called the next
\* hook, where it is suspended, or until the array ends, where the call
\* returns; c.called lists the Powers whose hook the call has invoked
RunLoop(c, idx) ==
  LET j == NextWith(powers, c.hook, idx)
  IN IF j = 0
       THEN /\ inflight' = [pending |-> <<>>, done |-> Append(inflight.done, c)]
            /\ powers' = powers
       ELSE /\ inflight' = [inflight EXCEPT !.pending =
                  <<[c EXCEPT !.next = j + 1, !.called = Append(@, powers[j].name)]>>]
            /\ powers' = PowersAfter(powers, <<[hook |-> c.hook, power |-> powers[j].name,
                                                in |-> c.arg]>>)

\* clear() up to the await of its first onClear hook
StartClear ==
  /\ budget.engine > 0
  /\ inflight.pending = <<>>
  /\ budget' = [budget EXCEPT !.engine = @ - 1]
  /\ docs' = EmptyDocs
  /\ hnsw' = None
  /\ RunLoop([op |-> "clear", hook |-> "onClear", arg |-> 0, next |-> 1, called |-> <<>>,
              start |-> PowersGetter(powers), stayed |-> {powers[n].name : n \in 1..Len(powers)}],
             1)
  /\ UNCHANGED <<index, cfg, ret, removed>>

\* delete(id) up to the await of its first onDelete hook
StartDelete ==
  /\ budget.engine > 0
  /\ inflight.pending = <<>>
  /\ budget' = [budget EXCEPT !.engine = @ - 1]
  /\ \E id \in DocIds :
       \E r \in {EngineDelete(docs, hnsw, powers, id)} :
         /\ docs' = r.docs
         /\ hnsw' = r.hnsw
         /\ IF r.existed
              THEN RunLoop([op |-> "delete", hook |-> "onDelete", arg |-> id, next |-> 1,
                            called |-> <<>>, start |-> PowersGetter(powers),
                            stayed |-> {powers[n].name : n \in 1..Len(powers)}], 1)
              ELSE /\ powers' = powers
                   /\ inflight' = [inflight EXCEPT !.done =
                         Append(@, [op |-> "delete", hook |-> "none", arg |-> id, next |-> 1,
                                    called |-> <<>>, start |-> PowersGetter(powers),
                                    stayed |-> {}])]
  /\ UNCHANGED <<index, cfg, ret, removed>>

\* the hook a call is suspended in settles: the loop reads the next element
ResumeLoop ==
  /\ inflight.pending # <<>>
  /\ RunLoop(inflight.pending[1], inflight.pending[1].next)
  /\ UNCHANGED <<index, docs, hnsw, cfg, ret, removed, budget>>

\* engine.use(power), possibly while a call is suspended
LoopUse ==
  /\ budget.use > 0
  /\ \E power \in LoopLib :
       /\ powers' = EngineUse(powers, power).powers
       /\ powers' # powers
  /\ budget' = [budget EXCEPT !.use = @ - 1]
  /\ UNCHANGED <<index, docs, hnsw, cfg, ret, removed, inflight>>

\* engine.eject(name), possibly while a call is suspended; a Power ejected
\* during a call has not stayed registered for it
LoopEject ==
  /\ budget.engine > 0
  /\ \E p \in LoopLib :
       /\ EngineEject(powers, p.name).found
       /\ powers' = EngineEject(powers, p.name).powers
       /\ inflight' = [inflight EXCEPT !.pending =
             [i \in 1..Len(@) |-> [@[i] EXCEPT !.stayed = @ \ {p.name}]]]
  /\ budget' = [budget EXCEPT !.engine = @ - 1]
  /\ UNCHANGED <<index, docs, hnsw, cfg, ret, removed>>

NextLoop == Add \/ StartClear \/ StartDelete \/ ResumeLoop \/ LoopUse \/ LoopEject

SpecLoop == InitLoop /\ [][NextLoop]_vars

(***************************************************************************)
(* Properties of the HNSW graph.                                           *)
(***************************************************************************)
Nodes(h) == DOMAIN h.layers

NeighborIds(h, x, l) == Elems(LayerOf(h, x, l))

LayersOf(h, x) == 0..(Len(h.layers[x]) - 1)

\* y was dropped from x's layer-l set by a prune while y kept x
PrunedEdge(h, x, y, l) ==
  /\ x \in Nodes(h) /\ y \in Nodes(h)
  /\ x \in NeighborIds(h, y, l)
  /\ y \notin NeighborIds(h, x, l)

Bidirectional(h) ==
  \A x \in Nodes(h) : \A l \in LayersOf(h, x) : \A y \in NeighborIds(h, x, l) :
    x \in NeighborIds(h, y, l)

NoDanglingEdges(h) ==
  \A x \in Nodes(h) : \A l \in LayersOf(h, x) :
    NeighborIds(h, x, l) \subseteq DOMAIN h.vectors

EntryPointOK(h) ==
  IF HSize(h) > 0
    THEN /\ h.enterPoint \in DOMAIN h.vectors
         /\ h.nodeLevel[h.enterPoint] = h.maxLayer
         /\ \A x \in DOMAIN h.nodeLevel : h.nodeLevel[x] <= h.maxLayer
    ELSE h.enterPoint = NoId /\ h.maxLayer = 0

WithinCaps(h) ==
  \A x \in Nodes(h) : \A l \in LayersOf(h, x) :
    Len(h.layers[x][l + 1]) <= (IF l = 0 THEN 2 * h.m ELSE h.m)

\* C1: HNSW bidirectionality: after any sequence of add and delete calls,
\* every y in neighbors(x)[l] has x in neighbors(y)[l], also right after a
\* neighbour's set was pruned by shrinkNeighbors.
C1_Bidirectional == Bidirectional(index)

\* C2: no dangling edges: every id in any node's per-layer neighbour set is
\* an id currently present in the graph (it has a stored vector).
C2_NoDanglingEdges == NoDanglingEdges(index)

\* C4: entry-point invariant: a non-empty index has a present enterPoint
\* whose level equals maxLayer and no node above maxLayer; an empty index has
\* enterPoint null and maxLayer 0.
C4_EntryPoint == EntryPointOK(index)

\* C5: cardinality caps: every node has at most 2*M neighbours on layer 0 and
\* at most M neighbours on every layer >= 1.
C5_CardinalityCaps == WithinCaps(index)

\* a prune has happened on layer 0 and on a layer >= 1, and the pruned nodes
\* sit at their caps
C5_Witness ==
  /\ \E x \in Nodes(index), y \in Nodes(index) :
       /\ PrunedEdge(index, y, x, 0)
       /\ Len(LayerOf(index, y, 0)) = 2 * index.m
  /\ \E x \in Nodes(index), y \in Nodes(index) : \E l \in 1..MaxLevel :
       /\ PrunedEdge(index, y, x, l)
       /\ Len(LayerOf(index, y, l)) = index.m

(***************************************************************************)
(* Properties of the engine.                                               *)
(***************************************************************************)
\* HNSW.size of the engine's index; an engine without index holds no node
IndexSize(h) == IF h = None THEN 0 ELSE HSize(h[1])

ResultIds(results) == {results[i].id : i \in 1..Len(results)}

\* the entries the last call logged for one hook
HookCalls(hook) ==
  LET IsHook(e) == e.hook = hook
  IN SelectSeq(ret.log, IsHook)

CalledNames(hook) ==
  LET calls == HookCalls(hook)
  IN [i \in 1..Len(calls) |-> calls[i].power]

\* the registered Powers that define a hook, in registry order
Defining(hook) ==
  LET Defines(p) == hook \in p.hooks
  IN SelectSeq(powers, Defines)

DefiningNames(hook) == PowersGetter(Defining(hook))

IsPrefix(s, t) == Len(s) <= Len(t) /\ s = SubSeq(t, 1, Len(s))

\* every hook of the phase got what the hook before it returned, the first
\* one got first
Chained(hook, first) ==
  LET calls == HookCalls(hook)
  IN \A i \in 1..Len(calls) :
       calls[i].in = (IF i = 1 THEN first ELSE calls[i - 1].out)

\* the last call reached the embedder and the core retrieval
Retrieved == ret.op = "search" /\ ret.route \in {"hnsw", "bruteForce"}

\* C3: after any sequence of engine add, delete and clear calls, engine.size
\* is the number of entries of the document store, and with useANN the size
\* of the HNSW index equals engine.size.
C3_SizeConsistency ==
  /\ DocsSize(docs) = Cardinality(DOMAIN docs.entry)
  /\ cfg.useANN => IndexSize(hnsw) = DocsSize(docs)

C7_HookOrdering ==
  /\ (ret.op = "add" /\ ret.documents # <<>>) =>
       /\ CalledNames("beforeAdd") = DefiningNames("beforeAdd")
       /\ Chained("beforeAdd", ret.documents)
       /\ CalledNames("afterAdd") = DefiningNames("afterAdd")
  /\ (ret.op = "add" /\ ret.documents = <<>>) => ret.log = <<>>
  /\ (ret.op = "search" /\ ret.route = "empty") => ret.log = <<>>
  /\ (ret.op = "search" /\ ret.route = "shortCircuit") =>
       /\ IsPrefix(CalledNames("beforeSearch"), DefiningNames("beforeSearch"))
       /\ CalledNames("afterSearch") = <<>>
  /\ (Retrieved /\ ret.err = "none") =>
       /\ CalledNames("beforeSearch") = DefiningNames("beforeSearch")
       /\ CalledNames("afterSearch") = DefiningNames("afterSearch")
       /\ Chained("afterSearch", ret.core)
  /\ (ret.op = "delete" /\ ret.result) =>
       CalledNames("onDelete") = DefiningNames("onDelete")
  /\ (ret.op = "delete" /\ ~ret.result) => ret.log = <<>>
  /\ ret.op = "clear" => CalledNames("onClear") = DefiningNames("onClear")

\* a search ran two afterSearch hooks, and the first one changed the list
\* the second one got
C7_Witness ==
  /\ Retrieved /\ ret.err = "none"
  /\ Len(HookCalls("afterSearch")) = 2
  /\ HookCalls("afterSearch")[1].out # HookCalls("afterSearch")[1].in
  /\ Len(HookCalls("beforeSearch")) = 2

\* C8: short-circuit: in search on a non-empty store, as soon as a
\* beforeSearch hook returns a context with shortCircuit set, search returns
\* exactly that list and calls no later beforeSearch hook, no embedder, no
\* core retrieval and no afterSearch hook.
C8_ShortCircuit ==
  (ret.op = "search" /\ ret.route # "empty") =>
    \A i \in 1..Len(ret.log) :
      (ret.log[i].hook = "beforeSearch" /\ ret.log[i].out.shortCircuit # None) =>
        /\ i = Len(ret.log)
        /\ ret.err = "none"
        /\ ret.results = ret.log[i].out.shortCircuit[1]
        /\ ret.route = "shortCircuit"
        /\ ret.core = <<>>

\* a hook short-circuited a search while a Power registered after it defines
\* beforeSearch and afterSearch, and the store would have answered otherwise
C8_Witness ==
  /\ ret.op = "search" /\ ret.route = "shortCircuit"
  /\ \E i \in 1..Len(powers) : \E j \in (i + 1)..Len(powers) :
       /\ powers[i].name = ret.log[Len(ret.log)].power
       /\ {"beforeSearch", "afterSearch"} \subseteq powers[j].hooks
  /\ ret.results # searchBruteForce(docs, createEmbedding(ret.query), ret.topK)

\* the embedder the registry stands for: the last Power that defines embed,
\* the built-in one if there is none
LastWriter ==
  LET withEmbed == Defining("embed")
  IN IF withEmbed = <<>> THEN BuiltIn ELSE withEmbed[Len(withEmbed)]

\* C9: embedder resolution is last-writer-wins: at every add and search the
\* embedder called is the embed hook of the most recently registered Power
\* still in the registry that defines embed, no other Power's embed is
\* called, and the built-in embedder is used exactly when no registered
\* Power defines embed.
C9_LastWriterWins ==
  ((ret.op = "add" /\ ret.documents # <<>>) \/ Retrieved) =>
    LET calls == HookCalls("embed")
    IN /\ Len(calls) = 1
       /\ calls[1].power = LastWriter.name
       /\ calls[1].out = EmbedAll(LastWriter, calls[1].in)
       /\ (calls[1].power = BuiltIn.name) <=> (Defining("embed") = <<>>)

\* an add embedded with the later of two registered Powers that define
\* embed, and the earlier one would have given other vectors
C9_Witness ==
  /\ ret.op = "add" /\ ret.stored # <<>>
  /\ Len(Defining("embed")) = 2
  /\ HookCalls("embed")[1].out # EmbedAll(Defining("embed")[1], HookCalls("embed")[1].in)

\* C10: Power names are unique: use(power) throws when a Power of that name
\* is registered and leaves the registry unchanged, so after any sequence of
\* use and eject calls no two registered Powers share a name, and powers
\* lists the names in registration order.
C10_UniqueNames ==
  /\ [](\A i \in 1..Len(powers) : \A j \in 1..Len(powers) :
          powers[i].name = powers[j].name => i = j)
  /\ [][ret'.op = "use" =>
         IF ret'.power.name \in Elems(PowersGetter(powers))
           THEN /\ ret'.err = "already registered"
                /\ powers' = powers
           ELSE /\ ret'.err = "none"
                /\ PowersGetter(powers') = Append(PowersGetter(powers), ret'.power.name)
                /\ powers'[Len(powers')] = ret'.power]_vars

\* use threw for a Power that is not the registered one of that name
C10_Witness ==
  /\ ret.op = "use" /\ ret.err = "already registered"
  /\ ret.power \notin Elems(powers)
  /\ Len(powers) = 2

\* C11: eject(name) returns true iff a Power of that name was registered;
\* when it returns true exactly that Power is removed and the remaining
\* Powers keep their relative order; when it returns false the registry is
\* unchanged.
C11_Eject ==
  [][ret'.op = "eject" =>
       /\ ret'.result <=> (ret'.name \in Elems(PowersGetter(powers)))
       /\ ret'.result =>
            \E i \in 1..Len(powers) :
              /\ powers[i].name = ret'.name
              /\ powers' = [j \in 1..(Len(powers) - 1) |->
                              IF j < i THEN powers[j] ELSE powers[j + 1]]
       /\ ~ret'.result => powers' = powers]_vars

\* eject removed one of three registered Powers
C11_Witness ==
  /\ ret.op = "eject" /\ ret.result
  /\ Len(powers) = 2
  /\ ret.name \notin Elems(PowersGetter(powers))

\* C12: adaptive routing: each search that reaches the core retrieval uses
\* the HNSW index iff useANN is true and the store size at the time of that
\* search is strictly greater than annThreshold, and exact brute-force
\* otherwise; so after deleting back down to annThreshold documents the next
\* search is brute-force, and with useANN = false every search is.
C12_AdaptiveRouting ==
  Retrieved =>
    LET queryVec == HookCalls("embed")[1].out[1]
        before == HookCalls("beforeSearch")
        topK == IF before = <<>> THEN ret.topK ELSE before[Len(before)].out.topK
        overThreshold == cfg.useANN /\ DocsSize(docs) > cfg.annThreshold
    IN /\ ret.route = "hnsw" <=> overThreshold
       /\ ret.route = "bruteForce" <=> ~overThreshold
       /\ ret.route = "bruteForce" =>
            ret.core = searchBruteForce(docs, queryVec, topK)
       /\ (ret.route = "hnsw" /\ ret.err = "none") =>
            /\ hnsw # None
            /\ ret.core = searchANN(docs, hnsw[1], cfg, queryVec, topK).results

\* an engine with useANN that went over annThreshold and was deleted back
\* down to it answered a search by brute force
C12_Witness ==
  /\ Retrieved /\ ret.route = "bruteForce"
  /\ cfg.useANN /\ DocsSize(docs) = cfg.annThreshold
  /\ removed # {} /\ hnsw # None

\* C13: adding a document whose id is already in the store overwrites the
\* store entry of that id (content, metadata, embedding), inserts no second
\* HNSW node for it and does not raise; engine.size is unchanged by such an
\* add.
C13_OverwriteOnAdd ==
  [][ret'.op = "add" =>
       LET ds == ret'.stored
           ids == {ds[i].id : i \in 1..Len(ds)}
           embeds == SelectSeq(ret'.log, LAMBDA e : e.hook = "embed")
           nodes == IF hnsw = None THEN {} ELSE DOMAIN hnsw[1].vectors
       IN /\ ret'.err = "none"
          /\ \A i \in 1..Len(ds) :
               (DocsHas(docs, ds[i].id) /\ \A j \in (i + 1)..Len(ds) : ds[j].id # ds[i].id) =>
                 docs'.entry[ds[i].id] =
                   [content |-> ds[i].content, metadata |-> ds[i].metadata,
                    embedding |-> embeds[1].out[i]]
          /\ DocsSize(docs') = DocsSize(docs) + Cardinality(ids \ DOMAIN docs.entry)
          /\ ids \subseteq DOMAIN docs.entry => docs'.order = docs.order
          /\ \A id \in ids \cap nodes :
               /\ hnsw'[1].vectors[id] = hnsw[1].vectors[id]
               /\ hnsw'[1].nodeLevel[id] = hnsw[1].nodeLevel[id]
          /\ IndexSize(hnsw') <= IndexSize(hnsw) + Cardinality(ids \ nodes)
          /\ (ids \subseteq DOMAIN docs.entry /\ ids \subseteq nodes) => hnsw' = hnsw]_vars

\* an add overwrote the store entry of an id with another embedding, and
\* the HNSW node of that id is the one inserted before
C13_Witness ==
  /\ ret.op = "add" /\ hnsw # None
  /\ \E i \in 1..Len(ret.stored) :
       LET id == ret.stored[i].id
       IN /\ id \in DOMAIN hnsw[1].vectors
          /\ docs.entry[id].content = ret.stored[i].content
          /\ Len(docs.entry[id].embedding) = EMBEDDING_DIM
          /\ hnsw[1].vectors[id] # docs.entry[id].embedding

\* C14: round trip: for any reachable engine state, fromJSON(toJSON())
\* yields an engine with the same size, the same set of ids and, for any
\* fixed query and k, the same search results as before the round trip.
C14_RoundTrip ==
  [][ret'.op = "fromJSON" =>
       /\ ret'.err = "none"
       /\ DocsSize(docs') = DocsSize(docs)
       /\ DOMAIN docs'.entry = DOMAIN docs.entry
       /\ \A query \in Contents, topK \in 1..MaxK :
            LET Same(a, b) == a.err = b.err /\ a.results = b.results
            IN Same(EngineSearch(docs, hnsw, powers, cfg, query, topK),
                    EngineSearch(docs', hnsw', powers, cfg, query, topK))]_vars

\* C15: BM25 consistency of the HybridSearch Power: after any sequence of
\* engine add (adds of an already-present id included), delete, clear and
\* fromJSON calls with HybridSearch registered, totalDocLength equals the sum
\* of docLengths, and for every term t docFreq[t] equals the number of
\* postings in termIndex[t].
C15_BM25Consistency ==
  \A n \in 1..Len(powers) :
    powers[n].kind = "HybridSearch" =>
      LET p == powers[n]
          RECURSIVE SumLengths(_)
          SumLengths(ids) ==
            IF ids = {} THEN 0
            ELSE LET id == CHOOSE x \in ids : TRUE
                 IN p.docLengths[id] + SumLengths(ids \ {id})
      IN /\ p.totalDocLength = SumLengths(DOMAIN p.docLengths)
         /\ DOMAIN p.docFreq = DOMAIN p.termIndex
         /\ \A t \in DOMAIN p.docFreq : p.docFreq[t] = Len(p.termIndex[t].order)

\* C16: the QueryCache never holds more than maxSize entries: after any
\* sequence of searches, for every configured maxSize, the number of cached
\* queries is at most maxSize, the oldest-inserted entry being evicted when
\* the cache is full.
C16_CacheBound ==
  /\ [](\A n \in 1..Len(powers) :
         powers[n].kind = "QueryCache" =>
           /\ Len(powers[n].cache.order) <= powers[n].maxSize
           /\ Elems(powers[n].cache.order) = DOMAIN powers[n].cache.entry)
  /\ [][\A n \in 1..Len(powers) :
         (powers[n].kind = "QueryCache" /\ Len(powers') = Len(powers)
            /\ powers'[n].cache # powers[n].cache /\ powers'[n].cache.order # <<>>
            /\ powers[n].cache.order # <<>>
            /\ Len(powers[n].cache.order) >= powers[n].maxSize) =>
           powers'[n].cache.order \in
             {Tail(powers[n].cache.order),
              Append(Tail(powers[n].cache.order), ret'.query)}]_vars

\* C17: QueryCache TTL: beforeSearch short-circuits with the cached results
\* iff an entry for the exact query string exists and the current time is
\* strictly before its expiry (insert time + ttl); once the entry has
\* expired, a search for that query runs the embedder and the core retrieval
\* again and stores a fresh entry.
C17_CacheTTL ==
  [][\A n \in 1..Len(powers) :
       (budget' # budget /\ ret'.op = "search" /\ ret'.route # "empty"
          /\ powers[n].kind = "QueryCache") =>
         LET p == powers[n]
             query == ret'.query
             live == /\ query \in DOMAIN p.cache.entry
                     /\ p.now < p.cache.entry[query].expires
             calls == SelectSeq(ret'.log, LAMBDA e : e.power = p.name)
         IN /\ calls[1].hook = "beforeSearch"
            /\ (calls[1].out.shortCircuit # None) <=> live
            /\ live =>
                 /\ calls[1].out.shortCircuit = Some(p.cache.entry[query].results)
                 /\ ret'.results = p.cache.entry[query].results
                 /\ ret'.route = "shortCircuit"
                 /\ powers' = powers
            /\ ~live =>
                 /\ ret'.route \in {"hnsw", "bruteForce"}
                 /\ \E i \in 1..Len(ret'.log) : ret'.log[i].hook = "embed"
                 /\ ret'.err = "none" =>
                      /\ query \in DOMAIN powers'[n].cache.entry
                      /\ powers'[n].cache.entry[query] =
                           [results |-> ret'.results, expires |-> p.now + p.ttl]]_vars

\* a search found the entry of its query expired, ran the retrieval and
\* stored a fresh entry
C17_Witness ==
  /\ Retrieved /\ ret.err = "none"
  /\ \E n \in 1..Len(ret.before) :
       /\ ret.before[n].kind = "QueryCache"
       /\ ret.query \in DOMAIN ret.before[n].cache.entry
       /\ ret.before[n].now >= ret.before[n].cache.entry[ret.query].expires
       /\ powers[n].cache.entry[ret.query].expires = powers[n].now + powers[n].ttl

\* C18: QueryCache is invalidated by clear: after engine.clear() has
\* completed, no later search returns a result list that was cached before
\* the clear, so no document removed by the clear appears in a later search
\* result.  Stated on the steps: clear leaves the cache empty, a
\* short-circuited search returns the list the cache holds for its query,
\* and an entry enters the cache only with the search that returned its list.
C18_ClearInvalidates ==
  [][\A n \in 1..Len(powers) :
       (budget' # budget /\ powers[n].kind = "QueryCache") =>
         LET old == powers[n].cache.entry
             new == powers'[n].cache.entry
         IN /\ ret'.op = "clear" => powers'[n].cache = [order |-> <<>>, entry |-> <<>>]
            /\ (ret'.op = "search" /\ ret'.route = "shortCircuit") =>
                 /\ ret'.query \in DOMAIN old
                 /\ ret'.results = old[ret'.query].results
            /\ \A query \in DOMAIN new :
                 (query \notin DOMAIN old \/ new[query] # old[query]) =>
                   /\ ret'.op = "search" /\ ret'.route \in {"hnsw", "bruteForce"}
                   /\ ret'.query = query
                   /\ new[query].results = ret'.results]_vars

\* clear emptied a cache that held the result list of an earlier search
C18_Witness ==
  /\ ret.op = "clear"
  /\ \E n \in 1..Len(powers) :
       /\ ret.before[n].kind = "QueryCache"
       /\ ret.before[n].cache.order # <<>>
       /\ powers[n].cache.order = <<>>

\* C19: MetadataFilter.afterSearch returns exactly the incoming results
\* whose metadata satisfies the predicate, in their incoming relative order;
\* it adds no result and changes no score.
C19_MetadataFilter ==
  ret.op = "search" =>
    \A i \in 1..Len(ret.log) :
      (ret.log[i].hook = "afterSearch" /\ ret.log[i].power = "MetadataFilter") =>
        LET in == ret.log[i].in
            out == ret.log[i].out
            kept == {j \in 1..Len(in) : in[j].metadata = "pub"}
        IN /\ Len(out) = Cardinality(kept)
           /\ \A k \in 1..Len(out) :
                \E j \in kept :
                  /\ out[k] = in[j]
                  /\ Cardinality({h \in kept : h < j}) = k - 1

\* the filter was handed a published and a draft result and kept only the
\* published one
C19_Witness ==
  /\ ret.op = "search"
  /\ \E i \in 1..Len(ret.log) :
       /\ ret.log[i].hook = "afterSearch" /\ ret.log[i].power = "MetadataFilter"
       /\ \E j, h \in 1..Len(ret.log[i].in) :
            ret.log[i].in[j].metadata = "pub" /\ ret.log[i].in[h].metadata = "draft"
       /\ Len(ret.log[i].out) = 1
       /\ ret.results = ret.log[i].out

\* C20: with HybridSearch(alpha = 1) registered, the ids returned by
\* search(q, k) are, in order, the same ids that the pure semantic
\* search(q, k) returns without HybridSearch, for every corpus and query.
C20_AlphaOneIsSemantic ==
  [][(budget' # budget /\ ret'.op = "search"
        /\ \E n \in 1..Len(powers) :
             powers[n].kind = "HybridSearch" /\ powers[n].alpha = <<1, 1>>) =>
       LET IdsOf(rs) == [i \in 1..Len(rs) |-> rs[i].id]
           pure == EngineSearch(docs, hnsw,
                                SelectSeq(powers, LAMBDA p : p.kind # "HybridSearch"),
                                cfg, ret'.query, ret'.topK)
       IN /\ ret'.err = pure.err
          /\ IdsOf(ret'.results) = IdsOf(pure.results)]_vars

\* C21: with HybridSearch(alpha = 0) registered, when the query has at least
\* one token that occurs in some indexed document, the first result of
\* search(q, k), k >= 1, is the document with the highest BM25 score for q,
\* whatever its position in (or absence from) the semantic result list.
\* The BM25 scores are those of the documents HybridSearch holds, each
\* indexed once.
C21_AlphaZeroIsBM25 ==
  [][\A n \in 1..Len(powers) :
       LET p == powers[n]
           indexed == IF p.kind = "HybridSearch" THEN DOMAIN p.storedDocs ELSE {}
           RECURSIVE AsDocs(_)
           AsDocs(ids) ==
             IF ids = {} THEN <<>>
             ELSE LET id == CHOOSE x \in ids : TRUE
                  IN <<[id |-> id, content |-> p.storedDocs[id].content,
                        metadata |-> p.storedDocs[id].metadata]>> \o AsDocs(ids \ {id})
           ranked == bm25Search(indexDocuments(HybridSearch(p.alpha), AsDocs(indexed)),
                                ret'.query, Cardinality(indexed)).results
           best == {ranked[i].id : i \in {j \in 1..Len(ranked) : ranked[j].score = ranked[1].score}}
       IN (/\ budget' # budget /\ ret'.op = "search"
           /\ p.kind = "HybridSearch" /\ p.alpha = <<0, 1>>
           /\ \E id \in indexed :
                Elems(tokenize(p.storedDocs[id].content)) \cap Elems(tokenize(ret'.query)) # {}) =>
            /\ ret'.err = "none"
            /\ ret'.results # <<>>
            /\ ret'.results[1].id \in best]_vars

\* C22: search results are sorted: for every query and k, the scores of the
\* list returned by HNSW.search, by the engine's brute-force search and by a
\* search fused by HybridSearch are non-increasing from first to last.  A NaN
\* score is neither above nor below another score.
C22_SortedResults ==
  LET NonIncreasing(rs) ==
        \A i \in 1..(Len(rs) - 1) :
          /\ rs[i].score # NaN /\ rs[i + 1].score # NaN
          /\ rs[i].score >= rs[i + 1].score
  IN /\ (ret.op = "hnsw.search" /\ ret.err = "none") => NonIncreasing(ret.results)
     /\ (ret.op = "search" /\ ret.route \in {"hnsw", "bruteForce"}) =>
          /\ NonIncreasing(ret.core)
          /\ \A i \in 1..Len(ret.log) :
               (/\ ret.log[i].hook = "afterSearch"
                /\ ret.log[i].power = "HybridSearch"
                /\ ret.log[i].out # Thrown) => NonIncreasing(ret.log[i].out)

C24_DeleteContract ==
  [][(budget' # budget /\ ret'.op = "delete") =>
       LET id == ret'.id
           listeners == SelectSeq(powers, LAMBDA p : "onDelete" \in p.hooks)
       IN /\ ret'.result <=> DocsHas(docs, id)
          /\ ~ret'.result =>
               /\ docs' = docs /\ hnsw' = hnsw /\ powers' = powers
               /\ ret'.log = <<>>
          /\ ret'.result =>
               /\ ~DocsHas(docs', id)
               /\ DOMAIN docs'.entry = DOMAIN docs.entry \ {id}
               /\ \A other \in DOMAIN docs'.entry : docs'.entry[other] = docs.entry[other]
               /\ hnsw' # None => id \notin DOMAIN hnsw'[1].vectors
               /\ (hnsw' = None) = (hnsw = None)
               /\ ret'.log = [i \in 1..Len(listeners) |->
                                [hook |-> "onDelete", power |-> listeners[i].name, in |-> id]]]_vars

\* a delete that returned true took the id out of a built HNSW index that
\* still holds another document, and notified two Powers
C24_Witness ==
  /\ ret.op = "delete" /\ ret.result
  /\ Len(ret.log) = 2
  /\ hnsw # None /\ HSize(hnsw[1]) = 1 /\ DocsSize(docs) = 1

C26_Serializable ==
  inflight.pending = <<>> =>
    LET done == inflight.done
        Apply(st, c) ==
          CASE c.op = "add" ->
                 LET r == EngineAdd(st.docs, st.hnsw, st.powers, cfg, c.documents, c.levels)
                 IN [docs |-> r.docs, hnsw |-> r.hnsw,
                     powers |-> PowersAfter(st.powers, r.log), same |-> st.same]
            [] c.op = "search" ->
                 LET r == EngineSearch(st.docs, st.hnsw, st.powers, cfg, c.query, c.topK)
                 IN [docs |-> st.docs, hnsw |-> r.hnsw,
                     powers |-> PowersAfter(st.powers, r.log),
                     same |-> st.same /\ r.err = c.err /\ r.results = c.results]
            [] c.op = "delete" ->
                 LET r == EngineDelete(st.docs, st.hnsw, st.powers, c.id)
                 IN [docs |-> r.docs, hnsw |-> r.hnsw,
                     powers |-> PowersAfter(st.powers, r.log),
                     same |-> st.same /\ r.existed = c.result]
            [] OTHER ->
                 [docs |-> EmptyDocs, hnsw |-> None,
                  powers |-> PowersAfter(st.powers,
                               RunNotify(st.powers, "onClear", "none", <<>>)),
                  same |-> st.same]
        RECURSIVE Serial(_, _, _)
        Serial(st, order, i) ==
          IF i > Len(done) THEN st ELSE Serial(Apply(st, done[order[i]]), order, i + 1)
    IN \E order \in {f \in [1..Len(done) -> 1..Len(done)] :
                       \A i, j \in 1..Len(done) : f[i] = f[j] => i = j} :
         LET end == Serial([docs |-> EmptyDocs, hnsw |-> None, powers |-> AsyncPowers,
                            same |-> TRUE], order, 1)
         IN end.same /\ end.docs = docs /\ end.hnsw = hnsw /\ end.powers = powers

\* C27: HNSW.add rejects bad input without side effects: add with an id
\* already in the index, or with a vector whose length differs from the
\* index dimension, throws and leaves the index (nodes, levels, edges,
\* enterPoint, maxLayer, size) unchanged; after delete(id) the same id can be
\* added again, the call returning with the id in the index.
C27_AddRejects ==
  [][(budget' # budget /\ ret'.op = "hnsw.add") =>
       /\ (ret'.id \in DOMAIN index.vectors \/ Len(ret'.vector) # index.dim)
            => (ret'.err \in {"ID already exists", "Dimension mismatch"} /\ index' = index)
       /\ (/\ ret'.id \in removed
           /\ ret'.id \notin DOMAIN index.vectors
           /\ Len(ret'.vector) = index.dim)
            => (/\ ret'.err = "none"
                /\ ret'.id \in DOMAIN index'.vectors
                /\ index'.vectors[ret'.id] = ret'.vector)]_vars

\* the rejection half of C27 alone
C27_RejectsOnly ==
  [][(budget' # budget /\ ret'.op = "hnsw.add") =>
       ((ret'.id \in DOMAIN index.vectors \/ Len(ret'.vector) # index.dim)
          => (ret'.err \in {"ID already exists", "Dimension mismatch"} /\ index' = index))]_vars

C29_OptionsReachIndex ==
  [][LET \* INSERT with beam width ef in its connect phase
         RECURSIVE ConnectWith(_, _, _, _, _, _)
         ConnectWith(h, id, vector, ep, l, ef) ==
           IF l < 0 THEN h
           ELSE LET selected == selectNeighborsSimple(searchLayer(h, vector, ep, ef, l).found,
                                                      MaxConn(h, l))
                IN ConnectWith(Connect([ok |-> TRUE, h |-> h], id, l, selected).h,
                               id, vector, selected, l - 1, ef)
         InsertWith(h, id, vector, level, ef) ==
           LET h1 == [h EXCEPT !.order = Append(@, id),
                               !.vectors = MapPut(@, id, vector),
                               !.nodeLevel = MapPut(@, id, level),
                               !.layers = MapPut(@, id, [i \in 1..(level + 1) |-> <<>>])]
               linked == ConnectWith(h1, id, vector,
                           GreedyDescent(h1, vector, <<h.enterPoint>>, h.maxLayer, level).ep,
                           Min2(level, h.maxLayer), ef)
           IN IF h.enterPoint = NoId
                THEN [h1 EXCEPT !.enterPoint = id, !.maxLayer = level]
                ELSE IF level > h.maxLayer
                  THEN [linked EXCEPT !.enterPoint = id, !.maxLayer = level]
                  ELSE linked
     IN budget' # budget =>
          /\ hnsw' # None => hnsw'[1].m = cfg.m
          /\ (ret'.op = "search" /\ ret'.route = "hnsw" /\ ret'.err = "none") =>
               LET hits == HnswSearch(hnsw'[1], createEmbedding(ret'.query), ret'.topK,
                                      cfg.efSearch).results
               IN /\ Len(ret'.core) = Len(hits)
                  /\ \A i \in 1..Len(hits) :
                       ret'.core[i].id = hits[i].id /\ ret'.core[i].score = hits[i].score
          /\ (/\ ret'.op = "add" /\ ret'.err = "none"
              /\ ret'.id \notin DOMAIN ensureHNSW(hnsw, cfg).vectors
              /\ NoDanglingEdges(ensureHNSW(hnsw, cfg))
              /\ hnsw' # None /\ ret'.id \in DOMAIN hnsw'[1].vectors) =>
               hnsw'[1] = InsertWith(ensureHNSW(hnsw, cfg), ret'.id,
                                     createEmbedding(ret'.id), ret'.level,
                                     cfg.efConstruction)]_vars

\* C30: store and HNSW hold the same vector: when useANN is true, after any
\* sequence of add/delete/clear/fromJSON calls, for every id in the document
\* store the HNSW index contains id and the vector it holds for id is the
\* embedding the document store holds for id.
C30_StoreMatchesIndex ==
  cfg.useANN =>
    \A id \in DOMAIN docs.entry :
      /\ hnsw # None
      /\ id \in DOMAIN hnsw[1].vectors
      /\ hnsw[1].vectors[id] = docs.entry[id].embedding

\* C31: beforeAdd output is what gets indexed: the document list returned by
\* the last beforeAdd hook is the list that is embedded (in one embedder
\* call), written to the store and HNSW in list order, and passed to every
\* afterAdd hook; documents of the caller's original list that the hooks
\* dropped or rewrote are not stored in their original form.
C31_BeforeAddOutputIndexed ==
  [][(budget' # budget /\ ret'.op = "add" /\ ret'.documents # <<>>) =>
       LET log == ret'.log
           befores == SelectSeq(log, LAMBDA e : e.hook = "beforeAdd")
           embeds == SelectSeq(log, LAMBDA e : e.hook = "embed")
           afters == SelectSeq(log, LAMBDA e : e.hook = "afterAdd")
           final == IF befores = <<>> THEN ret'.documents ELSE befores[Len(befores)].out
           FinalIds == {final[i].id : i \in 1..Len(final)}
           Last(id) == CHOOSE i \in 1..Len(final) :
                         final[i].id = id /\ \A j \in (i + 1)..Len(final) : final[j].id # id
           InListOrder(new) ==
             /\ \A a \in 1..Len(new) : new[a] \in FinalIds
             /\ \A a, b \in 1..Len(new) :
                  a < b => \E i, j \in 1..Len(final) :
                             i < j /\ final[i].id = new[a] /\ final[j].id = new[b]
           oldIndexed == IF hnsw = None THEN <<>> ELSE hnsw[1].order
           indexed == IF hnsw' = None THEN <<>> ELSE hnsw'[1].order
       IN /\ Len(embeds) = 1
          /\ embeds[1].in = [i \in 1..Len(final) |-> final[i].content]
          /\ Len(afters) = Cardinality({n \in 1..Len(powers) : "afterAdd" \in powers[n].hooks})
          /\ \A i \in 1..Len(afters) : afters[i].in = final
          /\ DOMAIN docs'.entry = (DOMAIN docs.entry) \cup FinalIds
          /\ \A id \in FinalIds :
               docs'.entry[id] = [content |-> final[Last(id)].content,
                                  metadata |-> final[Last(id)].metadata,
                                  embedding |-> embeds[1].out[Last(id)]]
          /\ \A id \in (DOMAIN docs.entry) \ FinalIds : docs'.entry[id] = docs.entry[id]
          /\ SubSeq(docs'.order, 1, Len(docs.order)) = docs.order
          /\ InListOrder(SubSeq(docs'.order, Len(docs.order) + 1, Len(docs'.order)))
          /\ cfg.useANN =>
               /\ SubSeq(indexed, 1, Len(oldIndexed)) = oldIndexed
               /\ InListOrder(SubSeq(indexed, Len(oldIndexed) + 1, Len(indexed)))
               /\ \A a \in (Len(oldIndexed) + 1)..Len(indexed) :
                    \E i \in 1..Len(final) :
                      /\ final[i].id = indexed[a]
                      /\ hnsw'[1].vectors[indexed[a]] = embeds[1].out[i]]_vars

\* an add whose beforeAdd hooks dropped or rewrote a document of the caller
C31_Witness ==
  /\ ret.op = "add"
  /\ Len(ret.documents) = 2
  /\ \E i \in 1..Len(ret.log) :
       /\ ret.log[i].hook = "beforeAdd"
       /\ ret.log[i].out # ret.documents
       /\ ret.log[i].out # <<>>
  /\ \E i \in 1..Len(ret.log) : ret.log[i].hook = "afterAdd"
  /\ DocsSize(docs) >= 1

\* C32: HNSW.add terminates with a finite level: for every value the random
\* source can return, randomLevel returns a finite non-negative integer and
\* add completes, the node getting neighbor sets for layers 0..level.
C32_AddTerminates ==
  (ret.op = "hnsw.add" /\ ret.err # "ID already exists") =>
    /\ ret.level \in Nat
    /\ ret.level # Infinity
    /\ ret.err # "NoReturn"
    /\ ret.id \in DOMAIN index.layers
    /\ Len(index.layers[ret.id]) = ret.level + 1

C34_TopKBound ==
  (ret.op = "search" /\ ret.err = "none") => Len(ret.results) <= ret.topK

\* C35: results come from the store: with HybridSearch registered as the only
\* Power, after any sequence of add, delete, clear and fromJSON calls
\* (including fromJSON on a non-empty engine without a prior clear), every id
\* returned by search is an id currently in the document store.
C35_ResultsFromStore ==
  (/\ ret.op = "search" /\ ret.err = "none"
   /\ Len(ret.before) = 1 /\ ret.before[1].kind = "HybridSearch")
    => \A i \in 1..Len(ret.results) : ret.results[i].id \in DOMAIN docs.entry

\* C36: cache transparency: with QueryCache registered together with other
\* afterSearch Powers in any registration order, two consecutive search(q, k)
\* calls within the TTL with no operation in between return the same list,
\* i.e. a cache hit returns exactly what the uncached search returned to the
\* caller.
C36_CacheTransparent ==
  [][(/\ budget' # budget
      /\ ret.op = "search" /\ ret'.op = "search"
      /\ ret'.query = ret.query /\ ret'.topK = ret.topK
      /\ ret.err = "none"
      /\ \E n \in 1..Len(powers) : powers[n].kind = "QueryCache")
       => (ret'.err = "none" /\ ret'.results = ret.results)]_vars

\* C37: embedder failure leaves the index untouched: if the resolved embedder
\* rejects during add, the error reaches the caller unchanged and the
\* document store, the HNSW index and the afterAdd-maintained Power state are
\* exactly as before the add; if it rejects during search, nothing is cached
\* and no afterSearch hook runs.
C37_EmbedderFailure ==
  [][(/\ budget' # budget
      /\ ret'.op \in {"add", "search"}
      /\ \E i \in 1..Len(ret'.log) :
           ret'.log[i].hook = "embed" /\ "threw" \in DOMAIN ret'.log[i])
       => /\ ret'.err = "EmbedError"
          /\ docs' = docs
          /\ hnsw' = hnsw
          /\ powers' = powers
          /\ \A i \in 1..Len(ret'.log) : ret'.log[i].hook \notin {"afterAdd", "afterSearch"}
          /\ ret'.op = "search" => ret'.results = <<>>]_vars

\* an add rejected by the embedder on an engine whose HybridSearch has
\* indexed a document and whose store and HNSW index hold it
C37_Witness ==
  /\ ret.op = "add"
  /\ ret.err = "EmbedError"
  /\ DocsSize(docs) = 1
  /\ hnsw # None
  /\ \E n \in 1..Len(powers) :
       powers[n].kind = "HybridSearch" /\ DOMAIN powers[n].storedDocs # {}

\* C38: import keeps store and index in step: whether fromJSON returns or
\* throws (an entry with a repeated id or an embedding of the wrong length),
\* afterwards the set of ids in the document store equals the set of ids in
\* the HNSW index when useANN is true, and the pre-import documents are gone.
C38_ImportInStep ==
  ret.op = "fromJSON" =>
    /\ cfg.useANN =>
         DOMAIN docs.entry = (IF hnsw = None THEN {} ELSE DOMAIN hnsw[1].vectors)
    /\ \A id \in DOMAIN docs.entry :
         \E i \in 1..Len(ret.data) :
           ret.data[i][1] = id /\ ret.data[i][2] = docs.entry[id]

\* C39: wrong-dimension embeddings are not silently half-indexed: if the
\* embedder returns a vector whose length is not the engine's dimension
\* during an engine add with useANN true, the document does not end up in the
\* document store while missing from the HNSW index; the precondition
\* violation is reported to the caller of add.
C39_NoHalfIndexing ==
  (/\ ret.op = "add" /\ cfg.useANN
   /\ \E i \in 1..Len(ret.log) :
        /\ ret.log[i].hook = "embed"
        /\ \E j \in 1..Len(ret.log[i].out) : Len(ret.log[i].out[j]) # EMBEDDING_DIM)
    => /\ ret.err # "none"
       /\ \A i \in 1..Len(ret.stored) :
            DocsHas(docs, ret.stored[i].id) =>
              (hnsw # None /\ ret.stored[i].id \in DOMAIN hnsw[1].vectors)

\* C40: registry changes during a suspended operation do not skip hooks: if
\* use or eject is called while an add, search, delete or clear is suspended
\* inside a hook or embedder call, every Power that stays registered for the
\* whole operation still has its hook for each remaining phase invoked
\* exactly once, in registration order.
C40_NoHookSkipped ==
  \A n \in 1..Len(inflight.done) :
    LET c == inflight.done[n]
        Due == {name \in c.stayed : \E p \in LoopLib : p.name = name /\ c.hook \in p.hooks}
        Calls(name) == {i \in 1..Len(c.called) : c.called[i] = name}
        Place(name) == CHOOSE i \in 1..Len(c.start) : c.start[i] = name
    IN /\ \A name \in Due : Cardinality(Calls(name)) = 1
       /\ \A a, b \in Due :
            Place(a) < Place(b) => \A i \in Calls(a), j \in Calls(b) : i < j

====
